---- MODULE Spec2Model ----
(***************************************************************************)
(* Model of the EPS production scheduler (backend/scheduling).             *)
(*                                                                         *)
(* Time is an integer number of seconds since midnight of day 0 of the     *)
(* model's calendar.  A datetime of the program is such an instant, a      *)
(* timedelta / a float number of hours is a number of seconds.             *)
(***************************************************************************)
EXTENDS Integers, Sequences, FiniteSets, TLC

VARIABLES
    \* ---- inputs of one engine run (SchedulingEngine.__init__ / schedule) ----
    mos,              \* the list of ManufacturingOrder handed to schedule()
    existing_blocks,  \* the existing_blocks argument
    config,           \* SchedulingConfig: merge_enabled, merge_strategy, now_datetime, ...
    work_calendar_gaps, \* rows of table WorkCalendarGap, ordered by gap_start
    work_calendar_days, \* rows of table WorkCalendarDay
    downtimes,        \* rows of table Downtime
    \* ---- the run's local state ----
    pc,               \* position in schedule() / schedule_fill_all_machines()
    mode,             \* "standard" | "fill_all_machines" | "select" (which entry point runs)
    sorted_mos,       \* sorted(mos, key=(ship_due, priority))
    idx,              \* index in sorted_mos of the next MO of the for-loop
    current_blocks,   \* current_blocks / all_scheduled_blocks
    merged_blocks,
    independent_blocks,
    merged_mo_ids,
    block_counter,
    result,           \* ScheduleResult: scheduled_mos, failed_mos, blocks
    \* ---- select_best_candidate applied to a drawn list (selector checks) ----
    sel_candidates,   \* the argument of select_best_candidate
    sel_result,       \* its return value (NoneValue or [candidate, reason])
    \* ---- the tables that the service (main.py) reads and writes ----
    db_orders,        \* rows of table Order, in insertion order
    db_products,      \* rows of table Product, in insertion order
    db_mold_mos,      \* rows of table MoldManufacturingOrder
    db_mold_details,  \* rows of table MoldOrderDetail
    db_completions,   \* rows of table Completion
    db_daily_blocks,  \* rows of table DailyScheduleBlock
    \* ---- the service's requests ----
    request,          \* the batch request in progress, or None
    response,         \* the response of the last request
    first_layout      \* the block layout of the first of two runs on the same inputs

vars == <<mos, existing_blocks, config, work_calendar_gaps, work_calendar_days, downtimes, pc, mode,
          sorted_mos, idx, current_blocks, merged_blocks, independent_blocks,
          merged_mo_ids, block_counter, result, sel_candidates, sel_result,
          db_orders, db_products, db_mold_mos, db_mold_details, db_completions,
          db_daily_blocks, request, response, first_layout>>

-----------------------------------------------------------------------------
(* Units *)

SecondsPerMinute == 60
SecondsPerHour == 3600
HoursPerDay == 24

Minutes(m) == m * SecondsPerMinute
Hours(h) == h * SecondsPerHour
Days(d) == d * HoursPerDay * SecondsPerHour

\* datetime.date() as a day index, and datetime.combine(date, time(hour, 0))
DateOf(t) == t \div Days(1)
Combine(date, hour) == Days(date) + Hours(hour)

Max(a, b) == IF a >= b THEN a ELSE b
Min(a, b) == IF a <= b THEN a ELSE b
Abs(a) == IF a >= 0 THEN a ELSE -a

\* Python's None where an object is expected, and where a string is expected
NoneValue == [none |-> TRUE]
NoneStr == "None"

\* F(v), with v evaluated once however often F uses it
Eval(v, F(_)) == CHOOSE r \in { F(x) : x \in {v} } : TRUE

\* sorted(seq, key=...) of Python: a stable sort; Less(a, b) is key(a) < key(b).
\* Element i lands after every element with a smaller key and after the
\* earlier elements with an equal key.
StableSort(seq, Less(_, _)) ==
    Eval(seq, LAMBDA s:
        LET n == Len(s)
            rank == [i \in 1..n |-> 1 + Cardinality({j \in 1..n :
                            \/ Less(s[j], s[i])
                            \/ (~Less(s[i], s[j]) /\ j < i)})]
        IN [r \in 1..n |-> s[CHOOSE i \in 1..n : rank[i] = r]])

RECURSIVE Concat(_)
Concat(ss) == IF ss = << >> THEN << >> ELSE Head(ss) \o Concat(Tail(ss))

MapSeq(s, F(_)) == [i \in 1..Len(s) |-> F(s[i])]

SeqToSet(s) == {s[i] : i \in 1..Len(s)}

-----------------------------------------------------------------------------
(* constraint_checker.py *)

\* ConstraintChecker.get_work_intervals: the WorkCalendarGap rows overlapping
\* [start_date, end_date], in gap_start order, clipped to the range.
get_work_intervals(start_date, end_date) ==
    LET gaps == SelectSeq(work_calendar_gaps,
                    LAMBDA g: g.gap_start <= end_date /\ g.gap_end >= start_date)
        clipped == MapSeq(gaps, LAMBDA g:
                    [start_time |-> Max(g.gap_start, start_date),
                     end_time   |-> Min(g.gap_end, end_date)])
    IN SelectSeq(clipped, LAMBDA w: w.start_time < w.end_time)

\* int(dt.start_hour) / int(dt.end_hour): the hour columns are floats, kept
\* here in seconds; int() drops the fraction of the hour.
IntHour(hour_seconds) == hour_seconds \div SecondsPerHour

\* one bound of a slot: hour < 24 is on the row's date, otherwise on the next
\* day at hour % 24
DowntimeInstant(date, hour) ==
    IF hour < HoursPerDay THEN Combine(date, hour % HoursPerDay)
    ELSE Combine(date + 1, hour % HoursPerDay)

\* ConstraintChecker.get_downtime_slots: rows of the machine whose date lies
\* in [start_date.date(), end_date.date()], as (start, end) pairs
get_downtime_slots(machine_id, start_date, end_date) ==
    LET rows == SelectSeq(downtimes, LAMBDA dt:
                    /\ dt.machine_id = machine_id
                    /\ dt.date >= DateOf(start_date)
                    /\ dt.date <= DateOf(end_date))
    IN MapSeq(rows, LAMBDA dt:
            << DowntimeInstant(dt.date, IntHour(dt.start_hour)),
               DowntimeInstant(dt.date, IntHour(dt.end_hour)) >>)

check_time_overlap(start1, end1, start2, end2) == start1 < end2 /\ start2 < end1

check_downtime_conflict(machine_id, start_time, end_time) ==
    LET slots == get_downtime_slots(machine_id, start_time, end_time)
    IN \E i \in 1..Len(slots) :
          check_time_overlap(start_time, end_time, slots[i][1], slots[i][2])

\* SchedulingConfig.changeover_forbidden_start / _end: "20:00" and "01:00"
changeover_forbidden_start == 20
changeover_forbidden_end == 1

\* ConstraintChecker.check_changeover_forbidden_zone (changeover_minutes is the int
\* the validator passes)
check_changeover_forbidden_zone(changeover_start, changeover_minutes) ==
    LET changeover_end == changeover_start + Minutes(changeover_minutes)
        date == DateOf(changeover_start)
        overlap_today == check_time_overlap(changeover_start, changeover_end,
                            Combine(date, changeover_forbidden_start),
                            Combine(date + 1, changeover_forbidden_end))
        overlap_yesterday == check_time_overlap(changeover_start, changeover_end,
                            Combine(date - 1, changeover_forbidden_start),
                            Combine(date, changeover_forbidden_end))
    IN overlap_today \/ overlap_yesterday

check_mold_concurrency(mold_code, start_time, end_time, blocks) ==
    \E i \in 1..Len(blocks) :
        /\ blocks[i].mold_code = mold_code
        /\ check_time_overlap(start_time, end_time, blocks[i].start_time, blocks[i].end_time)

check_machine_availability(machine_id, start_time, end_time, blocks) ==
    \E i \in 1..Len(blocks) :
        /\ blocks[i].machine_id = machine_id
        /\ check_time_overlap(start_time, end_time, blocks[i].start_time, blocks[i].end_time)

-----------------------------------------------------------------------------
(* The mold catalogue: tables MoldCalculation and MoldData.  A None or 0 in a
   numeric column is 0 here: every read of these columns treats the two alike
   ("x or 0", "not x or x == 0", "isnot(None) and > 0"). *)

mold_calculations == <<
    [component_code |-> "1A", mold_code |-> "6X", machine_id |-> 1, cavity_count |-> 1,
     avg_molding_time_sec |-> 3600, mold_change_time_min |-> 30, needed_quantity |-> 1,
     total_time_with_change_min |-> 90],
    [component_code |-> "1A", mold_code |-> "6X", machine_id |-> 2, cavity_count |-> 1,
     avg_molding_time_sec |-> 3600, mold_change_time_min |-> 30, needed_quantity |-> 1,
     total_time_with_change_min |-> 90],
    [component_code |-> "1B", mold_code |-> "6X", machine_id |-> 1, cavity_count |-> 1,
     avg_molding_time_sec |-> 3600, mold_change_time_min |-> 30, needed_quantity |-> 1,
     total_time_with_change_min |-> 90],
    [component_code |-> "1C", mold_code |-> "6Y", machine_id |-> 1, cavity_count |-> 2,
     avg_molding_time_sec |-> 7200, mold_change_time_min |-> 0, needed_quantity |-> 0,
     total_time_with_change_min |-> 0],
    [component_code |-> "1D", mold_code |-> "6Z", machine_id |-> 2, cavity_count |-> 1,
     avg_molding_time_sec |-> 1200, mold_change_time_min |-> 30, needed_quantity |-> 1,
     total_time_with_change_min |-> 50] >>

mold_data == <<
    [component_code |-> "1A", mold_code |-> "6X", machine_id |-> 1, frequency |-> 10,
     yield_rank |-> "A", cavity_count |-> 1],
    [component_code |-> "1A", mold_code |-> "6X", machine_id |-> 2, frequency |-> 5,
     yield_rank |-> "B", cavity_count |-> 1],
    [component_code |-> "1B", mold_code |-> "6X", machine_id |-> 1, frequency |-> 3,
     yield_rank |-> "A", cavity_count |-> 1],
    [component_code |-> "1E", mold_code |-> "6W", machine_id |-> 2, frequency |-> 0,
     yield_rank |-> "None", cavity_count |-> 0] >>

\* table Machine
machines == << [machine_id |-> 1], [machine_id |-> 2] >>

\* query(...).first(): the first row in table order, or None
First(rows) == IF rows = << >> THEN NoneValue ELSE Head(rows)

\* the rows a scheduling lookup accepts: cavity_count and avg_molding_time_sec set and > 0
UsableRow(r) == r.cavity_count > 0 /\ r.avg_molding_time_sec > 0

\* query(...).distinct(): each value once, in the order of its first row
RECURSIVE Distinct(_)
Distinct(s) ==
    IF s = << >> THEN << >>
    ELSE LET rest == Distinct(SubSeq(s, 1, Len(s) - 1))
             x == s[Len(s)]
         IN IF x \in SeqToSet(rest) THEN rest ELSE Append(rest, x)

-----------------------------------------------------------------------------
(* time_estimator.py *)

\* SchedulingConfig.default_changeover_minutes
default_changeover_minutes == 30

\* TimeEstimator.get_mold_info: None, or the MoldInfo of (component, machine)
get_mold_info(component_code, machine_id) ==
    LET mold == First(SelectSeq(mold_calculations, LAMBDA r:
                    /\ r.component_code = component_code
                    /\ r.machine_id = machine_id
                    /\ UsableRow(r)))
        md == First(SelectSeq(mold_data, LAMBDA r:
                    r.component_code = component_code /\ r.machine_id = machine_id))
    IN IF mold = NoneValue THEN NoneValue
       ELSE [mold_code |-> mold.mold_code, component_code |-> mold.component_code,
             machine_id |-> mold.machine_id, cavity_count |-> mold.cavity_count,
             avg_molding_time |-> mold.avg_molding_time_sec,
             frequency |-> IF md = NoneValue THEN 0 ELSE md.frequency,
             yield_rank |-> IF md = NoneValue THEN NoneStr ELSE md.yield_rank]

\* TimeEstimator.get_changeover_time, in minutes
get_changeover_time(component_code, machine_id) ==
    LET mold == First(SelectSeq(mold_calculations, LAMBDA r:
                    r.component_code = component_code /\ r.machine_id = machine_id))
    IN IF mold # NoneValue /\ mold.mold_change_time_min # 0
       THEN mold.mold_change_time_min
       ELSE default_changeover_minutes

\* TimeEstimator.calculate_forming_time, in seconds (forming_hours * 3600)
calculate_forming_time(mo, mold_info) ==
    LET mold_calc == First(SelectSeq(mold_calculations, LAMBDA r:
                    r.component_code = mo.component_code /\ r.machine_id = mold_info.machine_id))
        direct == (mo.quantity * mold_info.avg_molding_time) \div mold_info.cavity_count
    IN IF mold_calc = NoneValue THEN direct
       ELSE IF mold_calc.needed_quantity = 0 THEN direct
       ELSE LET forming_min == mold_calc.total_time_with_change_min - mold_calc.mold_change_time_min
            IN (mo.quantity * Minutes(forming_min)) \div mold_calc.needed_quantity

\* TimeEstimator.calculate_total_time(include_changeover=True): <<forming, total>> seconds
calculate_total_time(mo, mold_info) ==
    LET forming == calculate_forming_time(mo, mold_info)
        changeover == Minutes(get_changeover_time(mo.component_code, mold_info.machine_id))
    IN << forming, forming + changeover >>

\* timedelta(days=30): how far calculate_end_time looks for work intervals
end_time_search_days == 30

\* a loop that lets wall-clock time count as work
ConsumeIntervals_wallclock(intervals, i, current_time, remaining) == current_time + remaining

\* the for-loop of calculate_end_time over the work intervals from position i
RECURSIVE ConsumeIntervals(_, _, _, _)
ConsumeIntervals(intervals, i, current_time, remaining) ==
    IF i > Len(intervals) THEN current_time + remaining
    ELSE LET cur == Max(current_time, intervals[i].start_time)
         IN IF cur >= intervals[i].end_time
            THEN ConsumeIntervals(intervals, i + 1, cur, remaining)
            ELSE LET available == intervals[i].end_time - cur
                 IN IF available >= remaining THEN cur + remaining
                    ELSE ConsumeIntervals(intervals, i + 1, intervals[i].end_time,
                                          remaining - available)

\* TimeEstimator.calculate_end_time: the end instant of total seconds of work from start_time
calculate_end_time(start_time, mo, mold_info) ==
    Eval(<< calculate_total_time(mo, mold_info)[2],
            get_work_intervals(start_time, start_time + Days(end_time_search_days)) >>,
         LAMBDA v:
            LET total == v[1]
                work_intervals == v[2]
                in_work_interval == \E i \in 1..Len(work_intervals) :
                                        /\ work_intervals[i].start_time <= start_time
                                        /\ start_time < work_intervals[i].end_time
                later == SelectSeq(work_intervals, LAMBDA w: w.start_time > start_time)
                current_time == IF in_work_interval \/ later = << >> THEN start_time
                                ELSE Head(later).start_time
            IN IF work_intervals = << >> THEN start_time + total
               ELSE ConsumeIntervals(work_intervals, 1, current_time, total))

\* TimeEstimator.calculate_lateness: lateness in seconds (0 when on time)
calculate_lateness(end_time, ship_due) ==
    IF end_time - ship_due <= 0 THEN 0 ELSE end_time - ship_due

\* TimeEstimator.get_available_machines
get_available_machines(component_code) ==
    Distinct(MapSeq(SelectSeq(mold_calculations, LAMBDA r:
                        r.component_code = component_code /\ UsableRow(r)),
                    LAMBDA r: r.machine_id))

-----------------------------------------------------------------------------
(* validator.py *)

\* total_hours - forming_hours is computed in IEEE-754 doubles.  For a forming
\* time that is not a dyadic number of hours the difference can fall just
\* below changeover_minutes / 60; the forming times (in seconds) of the
\* catalogue where CPython's double arithmetic does so:
changeover_hours_rounds_down == {1200, 2400, 13200}

\* int(changeover_hours * 60) of validate_single_schedule: int() truncates, so
\* a difference just below the exact value loses a whole minute
int_changeover_minutes(forming, total) ==
    LET exact_minutes == (total - forming) \div SecondsPerMinute
    IN IF forming \in changeover_hours_rounds_down THEN exact_minutes - 1 ELSE exact_minutes

\* ScheduleValidator.validate_single_schedule: the set of violation types with
\* severity "error" (is_valid is: the set is empty).  The shift-end check does
\* not run: ConstraintChecker has no attribute shift_end_time.
validate_single_schedule(mo, mold_info, machine_id, start_time, blocks) ==
    Eval(<< calculate_total_time(mo, mold_info),
            calculate_end_time(start_time, mo, mold_info) >>,
         LAMBDA v:
            LET forming == v[1][1]
                total == v[1][2]
                end_time == v[2]
            IN  (IF check_downtime_conflict(machine_id, start_time, end_time)
                 THEN {"downtime_conflict"} ELSE {})
                \cup
                (IF total - forming > 0
                    /\ check_changeover_forbidden_zone(start_time,
                                                       int_changeover_minutes(forming, total))
                 THEN {"changeover_forbidden"} ELSE {})
                \cup
                (IF check_mold_concurrency(mold_info.mold_code, start_time, end_time, blocks)
                 THEN {"mold_concurrency"} ELSE {})
                \cup
                (IF check_machine_availability(machine_id, start_time, end_time, blocks)
                 THEN {"machine_occupied"} ELSE {}))

-----------------------------------------------------------------------------
(* gap_calculator.py *)

work_start_hour == 8

\* GapCalculator._ensure_work_start_time
_ensure_work_start_time(time) ==
    LET day_start == Combine(DateOf(time), work_start_hour)
    IN IF time < day_start THEN day_start ELSE time

\* GapCalculator._calculate_work_duration_between, in seconds
_calculate_work_duration_between(start_time, end_time, work_intervals) ==
    LET overlap(i) == Min(end_time, work_intervals[i].end_time)
                      - Max(start_time, work_intervals[i].start_time)
        RECURSIVE Sum(_)
        Sum(i) == IF i = 0 THEN 0
                  ELSE Sum(i - 1) + (IF overlap(i) > 0 THEN overlap(i) ELSE 0)
    IN Sum(Len(work_intervals))

TimeGap(machine_id, start_time, end_time, duration) ==
    [machine_id |-> machine_id, start_time |-> start_time, end_time |-> end_time,
     duration |-> duration]

\* the for-loop of _split_gap_by_downtime over the sorted downtimes from
\* position i; returns <<gaps, current_start>>
RECURSIVE SplitLoop(_, _, _, _, _, _, _)
SplitLoop(machine_id, sorted_downtimes, i, current_start, work_intervals, min_gap, gaps) ==
    IF i > Len(sorted_downtimes) THEN << gaps, current_start >>
    ELSE LET dt_start == sorted_downtimes[i][1]
             dt_end == sorted_downtimes[i][2]
             duration == _calculate_work_duration_between(current_start, dt_start, work_intervals)
             gaps2 == IF current_start < dt_start /\ duration >= min_gap
                      THEN Append(gaps, TimeGap(machine_id, current_start, dt_start, duration))
                      ELSE gaps
         IN SplitLoop(machine_id, sorted_downtimes, i + 1, Max(current_start, dt_end),
                      work_intervals, min_gap, gaps2)

\* GapCalculator._split_gap_by_downtime
_split_gap_by_downtime(machine_id, gap_start, gap_end, work_intervals, min_gap) ==
    Eval(get_downtime_slots(machine_id, gap_start, gap_end), LAMBDA dts:
        IF dts = << >>
        THEN Eval(_calculate_work_duration_between(gap_start, gap_end, work_intervals),
                  LAMBDA whole:
                     IF whole >= min_gap
                     THEN << TimeGap(machine_id, gap_start, gap_end, whole) >>
                     ELSE << >>)
        ELSE Eval(SplitLoop(machine_id, StableSort(dts, LAMBDA a, b: a[1] < b[1]), 1,
                            gap_start, work_intervals, min_gap, << >>),
                  LAMBDA looped:
                     LET current_start == looped[2]
                     IN Eval(_calculate_work_duration_between(current_start, gap_end,
                                                              work_intervals),
                             LAMBDA last:
                                IF current_start < gap_end /\ last >= min_gap
                                THEN Append(looped[1],
                                            TimeGap(machine_id, current_start, gap_end, last))
                                ELSE looped[1])))

\* GapCalculator.calculate_machine_gaps
calculate_machine_gaps(machine_id, start_date, end_date, blocks, min_gap) ==
    Eval(<< StableSort(SelectSeq(blocks, LAMBDA b: b.machine_id = machine_id),
                       LAMBDA a, b: a.start_time < b.start_time),
            get_work_intervals(start_date, end_date) >>,
         LAMBDA v:
            LET machine_blocks == v[1]
                work_intervals == IF v[2] = << >>
                                  THEN << [start_time |-> start_date, end_time |-> end_date] >>
                                  ELSE v[2]
                n == Len(machine_blocks)
                first_work_start == work_intervals[1].start_time
                last_work_end == work_intervals[Len(work_intervals)].end_time
                \* the (gap_start, gap_end) pairs handed to _split_gap_by_downtime
                first_gap == IF machine_blocks[1].start_time > first_work_start
                             THEN << << _ensure_work_start_time(Max(first_work_start, start_date)),
                                        machine_blocks[1].start_time >> >>
                             ELSE << >>
                between(i) == IF machine_blocks[i + 1].start_time
                                    > _ensure_work_start_time(machine_blocks[i].end_time)
                              THEN << << _ensure_work_start_time(machine_blocks[i].end_time),
                                         machine_blocks[i + 1].start_time >> >>
                              ELSE << >>
                last_gap == IF machine_blocks[n].end_time < last_work_end
                            THEN << << _ensure_work_start_time(machine_blocks[n].end_time),
                                       Min(last_work_end, end_date) >> >>
                            ELSE << >>
                bounds == IF n = 0
                          THEN << << _ensure_work_start_time(first_work_start), last_work_end >> >>
                          ELSE first_gap \o Concat([i \in 1..(n - 1) |-> between(i)]) \o last_gap
            IN Concat(MapSeq(bounds, LAMBDA g:
                    _split_gap_by_downtime(machine_id, g[1], g[2], work_intervals, min_gap))))

\* GapCalculator.find_earliest_feasible_time: << >> for None, or <<t>> with t
\* the start of the first gap that is late and long enough.  Every TimeGap is
\* built with has_downtime=False, so the branch for gaps with a downtime never runs.
find_earliest_feasible_time(machine_id, required, earliest_start, latest_end, blocks) ==
    Eval(SelectSeq(calculate_machine_gaps(machine_id, earliest_start, latest_end, blocks, 0),
                   LAMBDA g: g.start_time >= earliest_start /\ g.duration >= required),
         LAMBDA ok: IF ok = << >> THEN << >> ELSE << Head(ok).start_time >>)

-----------------------------------------------------------------------------
(* candidate_generator.py *)

\* timedelta(days=7): how far past the due date the gaps of a machine are searched
gap_horizon_days == 7

\* CandidateGenerator._create_candidate_at_time: the ScheduleCandidate (times in seconds)
_create_candidate_at_time(mo, mold_info, machine_id, start_time, blocks) ==
    Eval(<< calculate_total_time(mo, mold_info),
            calculate_end_time(start_time, mo, mold_info),
            validate_single_schedule(mo, mold_info, machine_id, start_time, blocks) >>,
         LAMBDA v:
            LET t == v[1]
                end_time == v[2]
                violations == v[3]
            IN [mo_id |-> mo.id, machine_id |-> machine_id, mold_code |-> mold_info.mold_code,
                start_time |-> start_time, end_time |-> end_time,
                forming |-> t[1], total |-> t[2],
                lateness |-> calculate_lateness(end_time, mo.ship_due),
                feasible |-> violations = {}, constraint_violations |-> violations,
                yield_rank |-> mold_info.yield_rank, frequency |-> mold_info.frequency])

\* one round of the loop over the gaps: the candidates after gap was handled
CandidatesOfGap(mo, mold_info, machine_id, blocks, total, gap, candidates) ==
    LET jit_start == mo.ship_due - total
        mid_point == gap.start_time + (gap.duration - total) \div 2
        \* a candidate's start_time is the time it is created at
        with_jit == /\ gap.end_time > mo.ship_due
                    /\ jit_start >= gap.start_time /\ jit_start < gap.end_time
                    /\ jit_start # gap.start_time
        with_mid == gap.duration > total * 2
        starts == << gap.start_time >> \o (IF with_jit THEN << jit_start >> ELSE << >>)
                                       \o (IF with_mid THEN << mid_point >> ELSE << >>)
    IN Eval(MapSeq(starts, LAMBDA t:
                _create_candidate_at_time(mo, mold_info, machine_id, t, blocks)),
            LAMBDA created:
               LET c2 == candidates \o (IF with_mid THEN SubSeq(created, 1, Len(created) - 1)
                                        ELSE created)
                   candidate_mid == created[Len(created)]
               IN IF with_mid /\ candidate_mid \notin SeqToSet(c2)
                  THEN Append(c2, candidate_mid) ELSE c2)

RECURSIVE GapLoop(_, _, _, _, _, _, _, _)
GapLoop(mo, mold_info, machine_id, blocks, total, gaps, i, candidates) ==
    IF i > Len(gaps) THEN candidates
    ELSE GapLoop(mo, mold_info, machine_id, blocks, total, gaps, i + 1,
                 CandidatesOfGap(mo, mold_info, machine_id, blocks, total, gaps[i], candidates))

\* CandidateGenerator._generate_candidates_for_machine
_generate_candidates_for_machine(mo, machine_id, blocks, earliest_start) ==
    Eval(get_mold_info(mo.component_code, machine_id), LAMBDA mold_info:
        IF mold_info = NoneValue THEN << >>
        ELSE Eval(calculate_total_time(mo, mold_info)[2], LAMBDA total:
            LET horizon == mo.ship_due + Days(gap_horizon_days)
            IN Eval(GapLoop(mo, mold_info, machine_id, blocks, total,
                            calculate_machine_gaps(machine_id, earliest_start, horizon,
                                                   blocks, total),
                            1, << >>),
                    LAMBDA candidates:
                       IF candidates # << >> THEN candidates
                       ELSE Eval(find_earliest_feasible_time(machine_id, total, earliest_start,
                                                             horizon, blocks),
                                 LAMBDA eft:
                                    IF eft = << >> THEN << >>
                                    ELSE << _create_candidate_at_time(mo, mold_info, machine_id,
                                                                      eft[1], blocks) >>))))

\* the sort key (lateness_hours, not feasible) of generate_candidates_for_mo
CandidateKeyLess(a, b) ==
    \/ a.lateness < b.lateness
    \/ (a.lateness = b.lateness /\ a.feasible /\ ~b.feasible)

\* the per-machine cap: a candidate stays while fewer than max_per_machine
\* candidates of its machine precede it
CapPerMachine(candidates, max_per_machine) ==
    LET keep(i) == Cardinality({j \in 1..(i - 1) :
                        candidates[j].machine_id = candidates[i].machine_id}) < max_per_machine
        RECURSIVE Build(_)
        Build(i) == IF i = 0 THEN << >>
                    ELSE IF keep(i) THEN Append(Build(i - 1), candidates[i])
                    ELSE Build(i - 1)
    IN Build(Len(candidates))

\* the candidates of every compatible machine, before sorting and capping
EnumeratedCandidates(mo, blocks, earliest_start) ==
    LET available_machines == get_available_machines(mo.component_code)
    IN Concat([k \in 1..Len(available_machines) |->
            _generate_candidates_for_machine(mo, available_machines[k], blocks, earliest_start)])

\* CandidateGenerator.generate_candidates_for_mo (earliest_start = config.now_datetime)
generate_candidates_for_mo(mo, blocks) ==
    Eval(StableSort(EnumeratedCandidates(mo, blocks, config.now_datetime), CandidateKeyLess),
         LAMBDA candidates:
            IF config.max_candidates_per_machine > 0
            THEN CapPerMachine(candidates, config.max_candidates_per_machine)
            ELSE candidates)

-----------------------------------------------------------------------------
(* candidate_selector.py *)

\* 0.01 h, the tolerance of the lateness comparison and the floor of the
\* forming-time denominator, in seconds
hundredth_hour_seconds == 36

\* CandidateScore._calculate_yield_score
_calculate_yield_score(candidate) ==
    CASE candidate.yield_rank = "A" -> 1
      [] candidate.yield_rank = "B" -> 2
      [] candidate.yield_rank = "C" -> 3
      [] OTHER -> 999

\* compare_to with the relative forming difference taken against
\* max(f1, f2) alone (0.01 h only guards the division by zero)
compare_to_without_floor(self, other) ==
    LET forming_diff == Abs(self.forming - other.forming)
        denominator == Max(self.forming, other.forming)
    IN IF Abs(self.lateness - other.lateness) > hundredth_hour_seconds
       THEN IF self.lateness < other.lateness THEN << -1, "due_date" >>
            ELSE << 1, "due_date" >>
       ELSE IF denominator > 0 /\ forming_diff * 100 >= config.time_threshold_pct * denominator
       THEN IF self.forming < other.forming THEN << -1, "forming_time" >>
            ELSE << 1, "forming_time" >>
       ELSE IF _calculate_yield_score(self) # _calculate_yield_score(other)
       THEN IF _calculate_yield_score(self) < _calculate_yield_score(other)
            THEN << -1, "yield_rank" >> ELSE << 1, "yield_rank" >>
       ELSE IF self.frequency # other.frequency
       THEN IF self.frequency > other.frequency THEN << -1, "frequency" >>
            ELSE << 1, "frequency" >>
       ELSE << 0, "first_feasible" >>

\* CandidateScore.compare_to: <<comparison, reason>>, comparison -1 when self
\* is better, 1 when other is better, 0 when equal.  The quotients of the code
\* are compared exactly: |d| / max(f1, f2, 0.01) * 100 >= pct is
\* |d| * 100 >= pct * max(f1, f2, 0.01).
compare_to(self, other) ==
    LET forming_diff == Abs(self.forming - other.forming)
        denominator == Max(Max(self.forming, other.forming), hundredth_hour_seconds)
    IN IF Abs(self.lateness - other.lateness) > hundredth_hour_seconds
       THEN IF self.lateness < other.lateness THEN << -1, "due_date" >>
            ELSE << 1, "due_date" >>
       ELSE IF forming_diff * 100 >= config.time_threshold_pct * denominator
       THEN IF self.forming < other.forming THEN << -1, "forming_time" >>
            ELSE << 1, "forming_time" >>
       ELSE IF _calculate_yield_score(self) # _calculate_yield_score(other)
       THEN IF _calculate_yield_score(self) < _calculate_yield_score(other)
            THEN << -1, "yield_rank" >> ELSE << 1, "yield_rank" >>
       ELSE IF self.frequency # other.frequency
       THEN IF self.frequency > other.frequency THEN << -1, "frequency" >>
            ELSE << 1, "frequency" >>
       ELSE << 0, "first_feasible" >>

\* the scan of select_best_candidate over the feasible candidates from position i
RECURSIVE BestLoop(_, _, _, _)
BestLoop(feasible, i, best, best_reason) ==
    IF i > Len(feasible) THEN [candidate |-> best, reason |-> best_reason]
    ELSE LET c == compare_to(best, feasible[i])
         IN IF c[1] > 0 THEN BestLoop(feasible, i + 1, feasible[i], c[2])
            ELSE BestLoop(feasible, i + 1, best, best_reason)

\* CandidateSelector.select_best_candidate: None, or the chosen candidate with its reason
select_best_candidate(candidates) ==
    LET feasible == SelectSeq(candidates, LAMBDA c: c.feasible)
    IN IF feasible = << >> THEN NoneValue
       ELSE BestLoop(feasible, 2, feasible[1], "first_feasible")

\* CandidateSelector.select_for_batch over generate_batch_candidates: for every
\* MO of the list, None or its selection against the same blocks
SelectedCandidates(mo_list, blocks) ==
    MapSeq(mo_list, LAMBDA mo:
        Eval(select_best_candidate(generate_candidates_for_mo(mo, blocks)),
             LAMBDA selection:
                IF selection = NoneValue THEN NoneValue ELSE selection.candidate))

-----------------------------------------------------------------------------
(* order_merger.py *)

DaysPerWeek == 7

\* OrderMerger._filter_by_deadline_window: the largest run of MOs, in due
\* order, whose due dates lie within the window after the run's first one
_filter_by_deadline_window(group_mos) ==
    LET by_due == StableSort(group_mos, LAMBDA a, b: a.ship_due < b.ship_due)
        n == Len(by_due)
        window_days == config.merge_window_weeks * DaysPerWeek
        current_group(i) ==
            << by_due[i] >> \o
            SelectSeq(SubSeq(by_due, i + 1, n),
                      LAMBDA m: (m.ship_due - by_due[i].ship_due) \div Days(1) <= window_days)
        RECURSIVE Best(_)
        Best(i) == IF i = 0 THEN << >>
                   ELSE IF Len(current_group(i)) > Len(Best(i - 1)) THEN current_group(i)
                   ELSE Best(i - 1)
    IN IF n < 2 THEN group_mos ELSE Best(n)

SumQuantity(group_mos) ==
    LET RECURSIVE Sum(_)
        Sum(i) == IF i = 0 THEN 0 ELSE Sum(i - 1) + group_mos[i].quantity
    IN Sum(Len(group_mos))

MinDue(group_mos) ==
    CHOOSE d \in {group_mos[i].ship_due : i \in 1..Len(group_mos)} :
        \A i \in 1..Len(group_mos) : d <= group_mos[i].ship_due

\* OrderMerger.identify_merge_opportunities: the MergeGroups, in the order in
\* which their (component_code, machine_id) key first occurs in the MO list.
\* selected[i] is the candidate selected for mo_list[i], or None.
identify_merge_opportunities(mo_list, selected) ==
    LET with_candidate == {i \in 1..Len(mo_list) : selected[i] # NoneValue}
        key(i) == << mo_list[i].component_code, selected[i].machine_id >>
        first_of_key == {i \in with_candidate : \A j \in with_candidate : key(j) = key(i) => i <= j}
        ordered == SelectSeq([i \in 1..Len(mo_list) |-> i], LAMBDA i: i \in first_of_key)
        members(i) == SelectSeq([j \in 1..Len(mo_list) |-> j],
                                LAMBDA j: j \in with_candidate /\ key(j) = key(i))
        group_mos(i) == [k \in 1..Len(members(i)) |-> mo_list[members(i)[k]]]
        filtered(i) == _filter_by_deadline_window(group_mos(i))
        mergeable(i) ==
            /\ Len(group_mos(i)) >= 2
            /\ config.merge_strategy = "merge_within_deadline"
            /\ Len(filtered(i)) >= 2
            /\ get_mold_info(key(i)[1], key(i)[2]) # NoneValue
        MergeGroup(i) ==
            [component_code |-> key(i)[1], machine_id |-> key(i)[2],
             mold_code |-> get_mold_info(key(i)[1], key(i)[2]).mold_code,
             mos |-> filtered(i),
             total_quantity |-> SumQuantity(filtered(i)),
             earliest_due |-> MinDue(filtered(i)),
             first_mo_index |-> CHOOSE j \in 1..Len(mo_list) : mo_list[j] = filtered(i)[1]]
    IN IF ~config.merge_enabled THEN << >>
       ELSE MapSeq(SelectSeq(ordered, mergeable), MergeGroup)

\* evaluation of a merge that accepts a merged block ending after the earliest due
evaluate_merge_without_due_check(merge_group, blocks, earliest_start) ==
    LET merged_mo == [id |-> "MERGED", component_code |-> merge_group.component_code,
                      quantity |-> merge_group.total_quantity,
                      ship_due |-> merge_group.earliest_due, priority |-> 3]
    IN Eval(get_mold_info(merge_group.component_code, merge_group.machine_id),
            LAMBDA mold_info:
               IF mold_info = NoneValue
               THEN [merge_group |-> merge_group, is_feasible |-> FALSE,
                     start_time |-> 0, end_time |-> 0]
               ELSE [merge_group |-> merge_group,
                     is_feasible |->
                         validate_single_schedule(merged_mo, mold_info,
                             merge_group.machine_id, earliest_start, blocks) = {},
                     start_time |-> earliest_start,
                     end_time |-> calculate_end_time(earliest_start, merged_mo, mold_info)])

\* OrderMerger.evaluate_merge: the MergeEvaluation of one group started at earliest_start
evaluate_merge(merge_group, blocks, earliest_start) ==
    LET merged_mo == [id |-> "MERGED", component_code |-> merge_group.component_code,
                      quantity |-> merge_group.total_quantity,
                      ship_due |-> merge_group.earliest_due, priority |-> 3]
    IN Eval(get_mold_info(merge_group.component_code, merge_group.machine_id),
            LAMBDA mold_info:
               IF mold_info = NoneValue
               THEN [merge_group |-> merge_group, is_feasible |-> FALSE,
                     start_time |-> 0, end_time |-> 0]
               ELSE Eval(calculate_end_time(earliest_start, merged_mo, mold_info),
                         LAMBDA end_time:
                            IF end_time > merge_group.earliest_due
                            THEN [merge_group |-> merge_group, is_feasible |-> FALSE,
                                  start_time |-> earliest_start, end_time |-> end_time]
                            ELSE [merge_group |-> merge_group,
                                  is_feasible |->
                                      validate_single_schedule(merged_mo, mold_info,
                                          merge_group.machine_id, earliest_start, blocks) = {},
                                  start_time |-> earliest_start, end_time |-> end_time]))

\* OrderMerger.optimize_merge_strategy: the evaluations of all merge groups,
\* each started where the candidate selected for the group's first MO starts
optimize_merge_strategy(mo_list, selected, blocks) ==
    MapSeq(identify_merge_opportunities(mo_list, selected),
           LAMBDA g: evaluate_merge(g, blocks, selected[g.first_mo_index].start_time))

\* models.ScheduleBlock with the defaults of its flags; split_part and
\* total_splits are 0 for None
ScheduleBlock(block_id, machine_id, mold_code, start_time, end_time, mo_ids, component_codes, is_merged) ==
    [block_id |-> block_id, machine_id |-> machine_id, mold_code |-> mold_code,
     start_time |-> start_time, end_time |-> end_time, mo_ids |-> mo_ids,
     component_codes |-> component_codes, is_merged |-> is_merged,
     must_end_at_shift_end |-> FALSE, has_changeover |-> FALSE,
     split_part |-> 0, total_splits |-> 0]

\* OrderMerger.create_merged_schedule_block
create_merged_schedule_block(evaluation, block_id) ==
    ScheduleBlock(block_id, evaluation.merge_group.machine_id, evaluation.merge_group.mold_code,
                  evaluation.start_time, evaluation.end_time,
                  MapSeq(evaluation.merge_group.mos, LAMBDA m: m.id),
                  << evaluation.merge_group.component_code >>, TRUE)

-----------------------------------------------------------------------------
(* block_splitter.py *)

\* split of a block that keeps the whole tail of the block in its last part
SplitBlock_with_unclipped_tail(block) ==
    LET work_intervals == get_work_intervals(block.start_time, block.end_time)
    IN IF Len(work_intervals) <= 1 THEN << block >>
       ELSE [i \in 1..2 |->
                [block EXCEPT !.block_id = Append(block.block_id, i),
                              !.start_time = IF i = 1 THEN block.start_time
                                             ELSE work_intervals[1].end_time,
                              !.end_time = IF i = 1 THEN work_intervals[1].end_time
                                           ELSE block.end_time,
                              !.must_end_at_shift_end = TRUE,
                              !.split_part = i,
                              !.total_splits = 2]]

\* split of a block that numbers every part as the first one
SplitBlock_without_numbering(block) ==
    LET work_intervals == get_work_intervals(block.start_time, block.end_time)
    IN IF Len(work_intervals) <= 1 THEN << block >>
       ELSE [i \in 1..Len(work_intervals) |->
                [block EXCEPT !.block_id = Append(block.block_id, i),
                              !.start_time = work_intervals[i].start_time,
                              !.end_time = work_intervals[i].end_time,
                              !.must_end_at_shift_end = TRUE,
                              !.split_part = 1,
                              !.total_splits = Len(work_intervals)]]

\* one block of split_blocks_by_workday: the block itself when it lies in at
\* most one work interval, else one sub-block per work interval it covers
SplitBlock(block) ==
    LET work_intervals == get_work_intervals(block.start_time, block.end_time)
        valid == SelectSeq(MapSeq(work_intervals, LAMBDA w:
                        [sub_start |-> Max(block.start_time, w.start_time),
                         sub_end   |-> Min(block.end_time, w.end_time)]),
                    LAMBDA v: v.sub_start < v.sub_end)
        sorted == StableSort(valid, LAMBDA a, b: a.sub_start < b.sub_start)
    IN IF Len(work_intervals) <= 1 THEN << block >>
       ELSE [i \in 1..Len(sorted) |->
                [block EXCEPT !.block_id = Append(block.block_id, i),
                              !.start_time = sorted[i].sub_start,
                              !.end_time = sorted[i].sub_end,
                              !.must_end_at_shift_end = TRUE,
                              !.has_changeover = (i = 1 /\ block.has_changeover),
                              !.split_part = i,
                              !.total_splits = Len(sorted)]]

\* BlockSplitter.split_blocks_by_workday
split_blocks_by_workday(blocks) ==
    Concat([i \in 1..Len(blocks) |-> SplitBlock(blocks[i])])

-----------------------------------------------------------------------------
(* scheduling_engine.py *)

\* the place of a uuid among the uuids, in the order of the strings
UuidRank(id) ==
    CHOOSE n \in 1..6 : << "u1", "u2", "u3", "u4", "u5", "u6" >>[n] = id

\* a sort key that ends with the id: (ship_due, priority, id)
MOKeyLess_then_id(a, b) ==
    \/ a.ship_due < b.ship_due
    \/ (a.ship_due = b.ship_due /\ a.priority < b.priority)
    \/ (a.ship_due = b.ship_due /\ a.priority = b.priority /\ UuidRank(a.id) < UuidRank(b.id))

\* the sort key (ship_due, priority) of schedule and schedule_fill_all_machines
MOKeyLess(a, b) ==
    \/ a.ship_due < b.ship_due
    \/ (a.ship_due = b.ship_due /\ a.priority < b.priority)

\* the block that _calculate_kpi maps an MO to: the last block of the list
\* that carries its id (0 when there is none)
BlockIndexOfMO(blocks, mo_id) ==
    LET carrying == {i \in 1..Len(blocks) : mo_id \in SeqToSet(blocks[i].mo_ids)}
    IN IF carrying = {} THEN 0 ELSE CHOOSE i \in carrying : \A j \in carrying : j <= i

\* SchedulingEngine._calculate_kpi: the counts the result keeps
_calculate_kpi(blocks, mo_list) ==
    LET scheduled == {i \in 1..Len(mo_list) : BlockIndexOfMO(blocks, mo_list[i].id) # 0}
        delayed == {i \in scheduled :
                       blocks[BlockIndexOfMO(blocks, mo_list[i].id)].end_time > mo_list[i].ship_due}
    IN [total_orders |-> Len(mo_list),
        on_time_orders |-> Cardinality(scheduled \ delayed),
        delayed_orders |-> Cardinality(delayed)]

\* the ScheduleResult once the loop is over: blocks split by workday, the KPI
\* counts, success unless an MO failed
FinalResult(blocks, scheduled_mos, failed_mos) ==
    Eval(split_blocks_by_workday(blocks), LAMBDA split:
        Eval(_calculate_kpi(split, sorted_mos), LAMBDA kpi:
            [success |-> failed_mos = << >>, blocks |-> split,
             scheduled_mos |-> scheduled_mos, failed_mos |-> failed_mos,
             total_mos |-> kpi.total_orders, on_time_count |-> kpi.on_time_orders,
             late_count |-> kpi.delayed_orders, changeover_count |-> Len(split)]))

EmptyResult ==
    [success |-> TRUE, blocks |-> << >>, scheduled_mos |-> << >>, failed_mos |-> << >>,
     total_mos |-> 0, on_time_count |-> 0, late_count |-> 0, changeover_count |-> 0]

inputs == << mos, existing_blocks, config, work_calendar_gaps, work_calendar_days, downtimes,
            mode >>
selector_vars == << sel_candidates, sel_result >>
database_vars == << db_orders, db_products, db_mold_mos, db_mold_details, db_completions,
                    db_daily_blocks >>
service_vars == << database_vars, request, response, first_layout >>

\* schedule(), up to the for-loop: sort the MOs; when merging is enabled,
\* select a candidate for every MO against the existing blocks, evaluate the
\* merge groups and commit every feasible one as a MERGED block
schedule_begin ==
    /\ pc = "start" /\ mode = "standard"
    /\ \E sorted \in { StableSort(mos, MOKeyLess) } :
       \E selected \in { IF config.merge_enabled
                         THEN SelectedCandidates(sorted, existing_blocks) ELSE << >> } :
       \E evaluations \in { IF config.merge_enabled
                            THEN optimize_merge_strategy(sorted, selected, existing_blocks)
                            ELSE << >> } :
          LET accepted == SelectSeq(evaluations, LAMBDA e: e.is_feasible)
              new_blocks == [k \in 1..Len(accepted) |->
                                create_merged_schedule_block(accepted[k], << "MERGED", k >>)]
          IN /\ sorted_mos' = sorted
             /\ merged_blocks' = new_blocks
             /\ merged_mo_ids' = UNION {SeqToSet(new_blocks[k].mo_ids) : k \in 1..Len(new_blocks)}
             /\ current_blocks' = existing_blocks \o new_blocks
             /\ block_counter' = 1 + Len(new_blocks)
             /\ result' = [EmptyResult EXCEPT !.scheduled_mos =
                               Concat([k \in 1..Len(new_blocks) |-> new_blocks[k].mo_ids])]
    /\ independent_blocks' = << >>
    /\ idx' = 1
    /\ pc' = "loop"
    /\ UNCHANGED << inputs, selector_vars, service_vars >>

\* one round of the for-loop for an MO that a merged block already carries
schedule_skip_merged ==
    /\ pc = "loop" /\ mode = "standard" /\ idx <= Len(sorted_mos)
    /\ sorted_mos[idx].id \in merged_mo_ids
    /\ idx' = idx + 1
    /\ UNCHANGED << inputs, selector_vars, service_vars, pc, sorted_mos, current_blocks, merged_blocks,
                    independent_blocks, merged_mo_ids, block_counter, result >>

\* one round of the for-loop that finds no candidate, or none feasible
schedule_fail ==
    /\ pc = "loop" /\ mode = "standard" /\ idx <= Len(sorted_mos)
    /\ sorted_mos[idx].id \notin merged_mo_ids
    /\ select_best_candidate(generate_candidates_for_mo(sorted_mos[idx], current_blocks))
           = NoneValue
    /\ result' = [result EXCEPT !.failed_mos = Append(@, sorted_mos[idx].id)]
    /\ idx' = idx + 1
    /\ UNCHANGED << inputs, selector_vars, service_vars, pc, sorted_mos, current_blocks, merged_blocks,
                    independent_blocks, merged_mo_ids, block_counter >>

\* one round of the for-loop that commits the selected candidate as a BLOCK
schedule_commit ==
    /\ pc = "loop" /\ mode = "standard" /\ idx <= Len(sorted_mos)
    /\ sorted_mos[idx].id \notin merged_mo_ids
    /\ \E selection \in { select_best_candidate(
                              generate_candidates_for_mo(sorted_mos[idx], current_blocks)) } :
          /\ selection # NoneValue
          /\ \E block \in { ScheduleBlock(<< "BLOCK", block_counter >>,
                                          selection.candidate.machine_id,
                                          selection.candidate.mold_code,
                                          selection.candidate.start_time,
                                          selection.candidate.end_time,
                                          << sorted_mos[idx].id >>,
                                          << sorted_mos[idx].component_code >>, FALSE) } :
                /\ independent_blocks' = Append(independent_blocks, block)
                /\ current_blocks' = Append(current_blocks, block)
                /\ result' = [result EXCEPT !.scheduled_mos = Append(@, sorted_mos[idx].id)]
    /\ block_counter' = block_counter + 1
    /\ idx' = idx + 1
    /\ UNCHANGED << inputs, selector_vars, service_vars, pc, sorted_mos, merged_blocks, merged_mo_ids >>

\* schedule(), after the for-loop
schedule_finish ==
    /\ pc = "loop" /\ mode = "standard" /\ idx > Len(sorted_mos)
    /\ result' = FinalResult(merged_blocks \o independent_blocks,
                             result.scheduled_mos, result.failed_mos)
    /\ pc' = "done"
    /\ UNCHANGED << inputs, selector_vars, service_vars, sorted_mos, idx, current_blocks, merged_blocks,
                    independent_blocks, merged_mo_ids, block_counter >>

-----------------------------------------------------------------------------
(* scheduling_engine.py: schedule_fill_all_machines *)

\* the mold of the first MoldData row of the order's component, or None
_get_mold_code_for_mo(mo) ==
    LET mold_data_row == First(SelectSeq(mold_data,
                                   LAMBDA r: r.component_code = mo.component_code))
    IN IF mold_data_row = NoneValue THEN NoneStr ELSE mold_data_row.mold_code

\* min(all_candidates, key=start_time): the first candidate of minimal start
EarliestCandidate(all_candidates) ==
    all_candidates[CHOOSE i \in 1..Len(all_candidates) :
        /\ \A j \in 1..Len(all_candidates) :
               all_candidates[i].start_time <= all_candidates[j].start_time
        /\ \A j \in 1..(i - 1) :
               all_candidates[j].start_time > all_candidates[i].start_time]

\* the double check: a block of the candidate's machine overlaps the candidate
has_conflict(best_candidate, all_scheduled_blocks) ==
    \E k \in 1..Len(all_scheduled_blocks) :
        /\ all_scheduled_blocks[k].machine_id = best_candidate.machine_id
        /\ best_candidate.start_time < all_scheduled_blocks[k].end_time
        /\ best_candidate.end_time > all_scheduled_blocks[k].start_time

\* schedule_fill_all_machines(), up to the for-loop
fill_begin ==
    /\ pc = "start" /\ mode = "fill"
    /\ sorted_mos' = StableSort(mos, MOKeyLess)
    /\ current_blocks' = existing_blocks
    /\ independent_blocks' = << >>
    /\ block_counter' = 1
    /\ result' = EmptyResult
    /\ idx' = 1
    /\ pc' = "loop"
    /\ UNCHANGED << inputs, selector_vars, service_vars, merged_blocks, merged_mo_ids >>

\* a round without a usable candidate that moves on without recording the order
fill_fail_unrecorded ==
    /\ pc = "loop" /\ mode = "fill" /\ idx <= Len(sorted_mos)
    /\ \E all_candidates \in { generate_candidates_for_mo(sorted_mos[idx], current_blocks) } :
          \/ all_candidates = << >>
          \/ /\ all_candidates # << >>
             /\ has_conflict(EarliestCandidate(all_candidates), current_blocks)
    /\ idx' = idx + 1
    /\ UNCHANGED << inputs, selector_vars, service_vars, pc, sorted_mos, current_blocks, merged_blocks,
                    independent_blocks, merged_mo_ids, block_counter, result >>

\* one round of the for-loop with no candidate, or with an earliest candidate
\* that overlaps a block of its machine
fill_fail ==
    /\ pc = "loop" /\ mode = "fill" /\ idx <= Len(sorted_mos)
    /\ \E all_candidates \in { generate_candidates_for_mo(sorted_mos[idx], current_blocks) } :
          \/ all_candidates = << >>
          \/ /\ all_candidates # << >>
             /\ has_conflict(EarliestCandidate(all_candidates), current_blocks)
    /\ result' = [result EXCEPT !.failed_mos = Append(@, sorted_mos[idx].id)]
    /\ idx' = idx + 1
    /\ UNCHANGED << inputs, selector_vars, service_vars, pc, sorted_mos, current_blocks, merged_blocks,
                    independent_blocks, merged_mo_ids, block_counter >>

\* one round of the for-loop that commits the earliest candidate as a FILL block
fill_commit ==
    /\ pc = "loop" /\ mode = "fill" /\ idx <= Len(sorted_mos)
    /\ \E all_candidates \in { generate_candidates_for_mo(sorted_mos[idx], current_blocks) } :
          /\ all_candidates # << >>
          /\ LET mo == sorted_mos[idx]
                 best_candidate == EarliestCandidate(all_candidates)
                 block == ScheduleBlock(<< "FILL", block_counter >>, best_candidate.machine_id,
                                        _get_mold_code_for_mo(mo), best_candidate.start_time,
                                        best_candidate.end_time, << mo.id >>,
                                        << mo.component_code >>, FALSE)
             IN /\ ~has_conflict(best_candidate, current_blocks)
                /\ _get_mold_code_for_mo(mo) # NoneStr
                /\ independent_blocks' = Append(independent_blocks, block)
                /\ current_blocks' = Append(current_blocks, block)
                /\ result' = [result EXCEPT !.scheduled_mos = Append(@, mo.id),
                                            !.blocks = Append(@, block)]
    /\ block_counter' = block_counter + 1
    /\ idx' = idx + 1
    /\ UNCHANGED << inputs, selector_vars, service_vars, pc, sorted_mos, merged_blocks, merged_mo_ids >>

\* one round of the for-loop whose order has no MoldData row: ScheduleBlock
\* rejects mold_code None and the except clause ends the run
fill_error ==
    /\ pc = "loop" /\ mode = "fill" /\ idx <= Len(sorted_mos)
    /\ \E all_candidates \in { generate_candidates_for_mo(sorted_mos[idx], current_blocks) } :
          /\ all_candidates # << >>
          /\ ~has_conflict(EarliestCandidate(all_candidates), current_blocks)
          /\ _get_mold_code_for_mo(sorted_mos[idx]) = NoneStr
    /\ result' = [result EXCEPT !.success = FALSE]
    /\ pc' = "done"
    /\ UNCHANGED << inputs, selector_vars, service_vars, sorted_mos, idx, current_blocks, merged_blocks,
                    independent_blocks, merged_mo_ids, block_counter >>

\* schedule_fill_all_machines(), after the for-loop
fill_finish ==
    /\ pc = "loop" /\ mode = "fill" /\ idx > Len(sorted_mos)
    /\ result' = FinalResult(independent_blocks, result.scheduled_mos, result.failed_mos)
    /\ pc' = "done"
    /\ UNCHANGED << inputs, selector_vars, service_vars, sorted_mos, idx, current_blocks, merged_blocks,
                    independent_blocks, merged_mo_ids, block_counter >>

-----------------------------------------------------------------------------
(* candidate_selector.py: select_best_candidate on its own *)

\* one call of CandidateSelector.select_best_candidate
select ==
    /\ pc = "start" /\ mode = "select"
    /\ sel_result' = select_best_candidate(sel_candidates)
    /\ pc' = "done"
    /\ UNCHANGED << inputs, service_vars, sel_candidates, sorted_mos, idx, current_blocks, merged_blocks,
                    independent_blocks, merged_mo_ids, block_counter, result >>

-----------------------------------------------------------------------------
(* The inputs of a run *)

\* calendar_gap_generator: one WorkCalendarGap per day with work_hours > 0,
\* from 08:00 for work_hours plus a one-hour break
break_hours == 1

CalendarGaps(work_hours) ==
    LET days == SelectSeq([d \in 1..Len(work_hours) |-> d], LAMBDA d: work_hours[d] > 0)
    IN MapSeq(days, LAMBDA d:
            [work_date |-> d - 1,
             gap_start |-> Combine(d - 1, work_start_hour),
             gap_end   |-> Combine(d - 1, work_start_hour) + Hours(work_hours[d] + break_hours),
             duration_hours |-> work_hours[d] + break_hours])

\* a row of table WorkCalendarDay; start_time "HH:MM" is the pair of its numbers
WorkCalendarDay(work_date, work_hours, start_time) ==
    [work_date |-> work_date, work_hours |-> work_hours, start_time |-> start_time]

\* the rows of WorkCalendarDay that the gaps of a calendar come from
CalendarDays(work_hours) ==
    [d \in 1..Len(work_hours) |-> WorkCalendarDay(d - 1, work_hours[d], << work_start_hour, 0 >>)]

\* the work calendars: work_hours of day 0, 1, 2
Calendars == { << 8, 8, 8 >>, << 16, 16, 16 >>, << 8, 0, 16 >> }

Downtime(machine_id, date, start_hour, end_hour) ==
    [machine_id |-> machine_id, date |-> date, start_hour |-> start_hour, end_hour |-> end_hour]

\* the contents of table Downtime; the hour columns (floats) are in seconds
DowntimeTables ==
    { << >>,
      << Downtime(1, 0, Hours(12), Hours(13)), Downtime(1, 0, Hours(17), Hours(18)) >>,
      << Downtime(1, 0, Hours(8), Hours(13) + Minutes(30)) >> }

\* the existing_blocks arguments: none, or mold 6X busy on machine 2
ExistingBlockLists ==
    { << >>,
      << ScheduleBlock(<< "OLD", 1 >>, 2, "6X", Combine(0, 8), Combine(0, 19), << "m0" >>, << "1A" >>, FALSE) >> }

\* config.now_datetime: the time of day 0 at which the run starts
NowTimes == { Combine(0, 8), Combine(0, 8) + Minutes(30), Combine(0, 19) + Minutes(31) }

Components == { "1A", "1B", "1C", "1D" }
Quantities == { 1, 8 }
DueDates == { Combine(0, 12), Combine(3, 0) }
Priorities == { 3 }

MO(id, component_code, quantity, ship_due, priority) ==
    [id |-> id, component_code |-> component_code, quantity |-> quantity,
     ship_due |-> ship_due, priority |-> priority]

Orders == { MO("m", c, q, d, p) : c \in Components, q \in Quantities, d \in DueDates,
                                   p \in Priorities }

Config(now, merge_enabled, merge_strategy) ==
    [now_datetime |-> now, merge_enabled |-> merge_enabled, merge_strategy |-> merge_strategy,
     merge_window_weeks |-> 1, time_threshold_pct |-> 10, max_candidates_per_machine |-> 5]

MergeSettings == { << FALSE, "no_merge" >>, << TRUE, "no_merge" >>,
                   << TRUE, "merge_within_deadline" >> }

IdleRun ==
    /\ pc = "start"
    /\ sorted_mos = << >> /\ idx = 0
    /\ current_blocks = << >> /\ merged_blocks = << >> /\ independent_blocks = << >>
    /\ merged_mo_ids = {} /\ block_counter = 0
    /\ result = EmptyResult

IdleSelector == sel_candidates = << >> /\ sel_result = NoneValue

IdleDatabase ==
    /\ db_orders = << >> /\ db_products = << >>
    /\ db_mold_mos = << >> /\ db_mold_details = << >>
    /\ db_completions = << >> /\ db_daily_blocks = << >>

IdleService == request = NoneValue /\ response = NoneValue /\ first_layout = NoneValue

\* one order in every environment
InitOneOrder ==
    \E o \in Orders, cal \in Calendars, dt \in DowntimeTables, ex \in ExistingBlockLists,
       now \in NowTimes :
        /\ mos = << [o EXCEPT !.id = "m1"] >>
        /\ existing_blocks = ex
        /\ config = Config(now, FALSE, "no_merge")
        /\ work_calendar_gaps = CalendarGaps(cal) /\ work_calendar_days = CalendarDays(cal)
        /\ downtimes = dt

\* two orders, handed over in either order of their ids, with and without merging
InitTwoOrders ==
    \E o1 \in Orders, o2 \in Orders, ids \in { << "m1", "m2" >>, << "m2", "m1" >> },
       cal \in Calendars, now \in NowTimes, ms \in MergeSettings :
        /\ mos = << [o1 EXCEPT !.id = ids[1]], [o2 EXCEPT !.id = ids[2]] >>
        /\ existing_blocks = << >>
        /\ config = Config(now, ms[1], ms[2])
        /\ work_calendar_gaps = CalendarGaps(cal) /\ work_calendar_days = CalendarDays(cal)
        /\ downtimes = << >>

\* two pairs of orders of one component each, with merging
InitTwoPairs ==
    \E c1 \in Components, c2 \in Components, cal \in Calendars :
        /\ mos = << MO("m1", c1, 1, Combine(3, 0), 3), MO("m2", c1, 1, Combine(3, 0), 3),
                    MO("m3", c2, 1, Combine(3, 0), 3), MO("m4", c2, 1, Combine(3, 0), 3) >>
        /\ existing_blocks = << >>
        /\ config = Config(Combine(0, 8), TRUE, "merge_within_deadline")
        /\ work_calendar_gaps = CalendarGaps(cal) /\ work_calendar_days = CalendarDays(cal)
        /\ downtimes = << >>

Init ==
    /\ mode = "standard"
    /\ InitOneOrder \/ InitTwoOrders \/ InitTwoPairs
    /\ IdleRun
    /\ IdleSelector
    /\ IdleDatabase /\ IdleService

Next ==
    \/ schedule_begin
    \/ schedule_skip_merged
    \/ schedule_fail
    \/ schedule_commit
    \/ schedule_finish

Spec == Init /\ [][Next]_vars

\* the existing_blocks arguments of fill mode: none, or machine 2 busy from 09:00
FillExistingBlockLists ==
    { << >>,
      << ScheduleBlock(<< "OLD", 1 >>, 2, "6X", Combine(0, 9), Combine(0, 19), << "m0" >>, << "1A" >>, FALSE) >> }

\* the orders of fill mode: those of standard mode and one too long for the
\* work hours of the shorter calendars
FillOrders == Orders \cup { MO("m", "1A", 40, Combine(3, 0), 3) }

\* two orders in fill mode
InitFillOrders ==
    \E o1 \in FillOrders, o2 \in FillOrders, cal \in Calendars, now \in NowTimes,
       ex \in FillExistingBlockLists :
        /\ mos = << [o1 EXCEPT !.id = "m1"], [o2 EXCEPT !.id = "m2"] >>
        /\ existing_blocks = ex
        /\ config = Config(now, FALSE, "no_merge")
        /\ work_calendar_gaps = CalendarGaps(cal) /\ work_calendar_days = CalendarDays(cal)
        /\ downtimes = << >>

InitFill ==
    /\ mode = "fill"
    /\ InitFillOrders
    /\ IdleRun
    /\ IdleSelector
    /\ IdleDatabase /\ IdleService

NextFill ==
    \/ fill_begin
    \/ fill_fail
    \/ fill_commit
    \/ fill_error
    \/ fill_finish

SpecFill == InitFill /\ [][NextFill]_vars

\* the largest frequency (number of times the mold was mounted) of a candidate
MaxFrequency == 1

\* a ScheduleCandidate as the selector reads it; machine_id tells the
\* candidates of a list apart
Candidate(machine_id, lateness, forming, yield_rank, frequency, feasible) ==
    [machine_id |-> machine_id, lateness |-> lateness, forming |-> forming,
     yield_rank |-> yield_rank, frequency |-> frequency, feasible |-> feasible]

\* lateness and forming time in seconds: on time, 30 s and one hour late;
\* forming times of a few seconds and of about two hours
PairLateness == { 0, 30, Hours(1) }
PairForming == { 5, 7, 6000, Hours(2) }
YieldRanks == { "A", "B", NoneStr }
Thresholds == { 10, 30 }

\* lists of two candidates
InitSelPairs ==
    \E l1 \in PairLateness, l2 \in PairLateness, f1 \in PairForming, f2 \in PairForming,
       y1 \in YieldRanks, y2 \in YieldRanks, q1 \in 0..MaxFrequency, q2 \in 0..MaxFrequency,
       ok1 \in BOOLEAN, ok2 \in BOOLEAN, pct \in Thresholds :
        /\ sel_candidates = << Candidate(1, l1, f1, y1, q1, ok1), Candidate(2, l2, f2, y2, q2, ok2) >>
        /\ config = [Config(Combine(0, 8), FALSE, "no_merge") EXCEPT !.time_threshold_pct = pct]

TripleLateness == { 0, 30, 60 }
TripleForming == { 5000, 6000, Hours(2) }

\* lists of three candidates that differ in lateness, forming time and feasibility
InitSelTriples ==
    \E l \in [1..3 -> TripleLateness], f \in [1..3 -> TripleForming], ok \in [1..3 -> BOOLEAN] :
        /\ sel_candidates = [i \in 1..3 |-> Candidate(i, l[i], f[i], "A", 0, ok[i])]
        /\ config = Config(Combine(0, 8), FALSE, "no_merge")

InitSel ==
    /\ mode = "select"
    /\ InitSelPairs \/ InitSelTriples
    /\ mos = << >> /\ existing_blocks = << >>
    /\ work_calendar_gaps = << >> /\ work_calendar_days = << >> /\ downtimes = << >>
    /\ IdleRun
    /\ sel_result = NoneValue
    /\ IdleDatabase /\ IdleService

NextSel == select

SpecSel == InitSel /\ [][NextSel]_vars

-----------------------------------------------------------------------------
(* Properties of a standard-mode run *)

\* the blocks the run has committed, before splitting
CommittedBlocks == merged_blocks \o independent_blocks

\* the order of a run with the given id
OrderOf(mo_id) == CHOOSE m \in SeqToSet(mos) : m.id = mo_id

\* the MO ids in ascending order
MOIds == << "m0", "m1", "m2", "m3", "m4" >>
IdRank(mo_id) == CHOOSE n \in 1..Len(MOIds) : MOIds[n] = mo_id

\* C1: after schedule() from a conflict-free existing_blocks list, no two
\* blocks of the committed set (existing, merged and independent blocks,
\* before splitting) on the same machine overlap (half-open intervals).
C1_NoMachineOverlap ==
    (mode = "standard" /\ pc = "done") =>
        \A i \in 1..Len(current_blocks) : \A j \in (i + 1)..Len(current_blocks) :
            current_blocks[i].machine_id = current_blocks[j].machine_id =>
                ~(/\ current_blocks[i].start_time < current_blocks[j].end_time
                  /\ current_blocks[j].start_time < current_blocks[i].end_time)

\* C2: after schedule() from a conflict-free existing_blocks list, no two
\* committed blocks with the same mold_code overlap in time, whatever their machines.
C2_NoMoldOverlap ==
    (mode = "standard" /\ pc = "done") =>
        \A i \in 1..Len(current_blocks) : \A j \in (i + 1)..Len(current_blocks) :
            current_blocks[i].mold_code = current_blocks[j].mold_code =>
                ~(/\ current_blocks[i].start_time < current_blocks[j].end_time
                  /\ current_blocks[j].start_time < current_blocks[i].end_time)

InsideWorkInterval(t) ==
    \E i \in 1..Len(work_calendar_gaps) :
        work_calendar_gaps[i].gap_start <= t /\ t < work_calendar_gaps[i].gap_end

\* C4: when the work calendar has a work interval in the scheduling horizon,
\* the start_time of every committed block lies inside some work interval
\* (interval.start <= start < interval.end).
C4_StartInsideWorkInterval ==
    (\E i \in 1..Len(work_calendar_gaps) :
        work_calendar_gaps[i].gap_end > config.now_datetime) =>
        \A k \in 1..Len(CommittedBlocks) : InsideWorkInterval(CommittedBlocks[k].start_time)

\* C5: no block committed in standard mode overlaps a downtime of its own
\* machine, the downtime (date, start_hour, end_hour) being the window from
\* date + start_hour to date + end_hour (hours >= 24 fall on the next day).
C5_NoDowntimeOverlap ==
    mode = "standard" =>
        \A k \in 1..Len(CommittedBlocks) : \A d \in 1..Len(downtimes) :
            downtimes[d].machine_id = CommittedBlocks[k].machine_id =>
                ~(/\ CommittedBlocks[k].start_time < Days(downtimes[d].date) + downtimes[d].end_hour
                  /\ Days(downtimes[d].date) + downtimes[d].start_hour < CommittedBlocks[k].end_time)

\* the changeover time of a committed block, in seconds
ChangeoverOfBlock(block) ==
    Minutes(get_changeover_time(OrderOf(block.mo_ids[1]).component_code, block.machine_id))

\* [from, to) overlaps the band 20:00 to 01:00 of the next day that begins on day
OverlapsForbiddenBand(from, to, day) ==
    from < Combine(day + 1, 1) /\ Combine(day, 20) < to

\* C6: for every block committed in standard mode with a changeover time > 0,
\* the changeover window [start, start + changeover) does not overlap the
\* forbidden band 20:00 to next-day 01:00 anchored on the start's calendar
\* day or on the previous one.
C6_ChangeoverOutsideForbiddenBand ==
    mode = "standard" =>
        \A k \in 1..Len(CommittedBlocks) :
            LET block == CommittedBlocks[k]
                window_end == block.start_time + ChangeoverOfBlock(block)
            IN ChangeoverOfBlock(block) > 0 =>
                  /\ ~OverlapsForbiddenBand(block.start_time, window_end, DateOf(block.start_time))
                  /\ ~OverlapsForbiddenBand(block.start_time, window_end,
                                            DateOf(block.start_time) - 1)

\* C9: in standard mode an MMO is recorded in failed_mos only if none of the
\* candidates enumerated for it over all its compatible machines is feasible
\* against the currently committed blocks (sorting and the per-machine cap
\* never discard every feasible candidate).
C9_FailedOnlyWithoutFeasibleCandidate ==
    [][(mode = "standard" /\ result'.failed_mos # result.failed_mos) =>
          \A c \in SeqToSet(EnumeratedCandidates(sorted_mos[idx], current_blocks,
                                                 config.now_datetime)) : ~c.feasible]_vars

\* (ship_due, priority, id) of a strictly before that of b
MOKeyThenIdLess(a, b) ==
    \/ MOKeyLess(a, b)
    \/ (~MOKeyLess(b, a) /\ IdRank(a.id) < IdRank(b.id))

\* C10: the MMOs are processed in ascending (earliest_due, priority), those
\* with equal (earliest_due, priority) in ascending MMO id, whatever the order
\* of the input list.
C10_ProcessingOrderByKeyThenId ==
    pc # "start" =>
        \A i \in 1..Len(sorted_mos) : \A j \in (i + 1)..Len(sorted_mos) :
            ~MOKeyThenIdLess(sorted_mos[j], sorted_mos[i])

-----------------------------------------------------------------------------
(* Properties of a fill-mode run *)

\* C3: after schedule_fill_all_machines no two blocks committed by the run
\* with the same mold_code overlap in time.
C3_FillNoMoldOverlap ==
    (mode = "fill" /\ pc = "done") =>
        \A i \in 1..Len(independent_blocks) : \A j \in (i + 1)..Len(independent_blocks) :
            independent_blocks[i].mold_code = independent_blocks[j].mold_code =>
                ~(/\ independent_blocks[i].start_time < independent_blocks[j].end_time
                  /\ independent_blocks[j].start_time < independent_blocks[i].end_time)

-----------------------------------------------------------------------------
(* Properties of select_best_candidate *)

Selected == mode = "select" /\ pc = "done"

FeasibleCandidates == SelectSeq(sel_candidates, LAMBDA c: c.feasible)

\* C7: select_best_candidate returns a feasible candidate whose lateness is at
\* most 0.01 h (36 s) above the least lateness of the feasible candidates.
C7_LatenessWithinToleranceOfMinimum ==
    (Selected /\ FeasibleCandidates # << >>) =>
        /\ sel_result # NoneValue
        /\ sel_result.candidate.feasible
        /\ \A i \in 1..Len(FeasibleCandidates) :
              sel_result.candidate.lateness <= FeasibleCandidates[i].lateness + 36

\* the order of the yield ranks: A < B < C < missing
YieldOrder(yield_rank) ==
    CASE yield_rank = "A" -> 1
      [] yield_rank = "B" -> 2
      [] yield_rank = "C" -> 3
      [] OTHER -> 4

\* the choice between a (earlier in the list) and b once forming time has not decided
ByYieldFrequencyPosition(a, b) ==
    IF YieldOrder(a.yield_rank) # YieldOrder(b.yield_rank)
    THEN (IF YieldOrder(a.yield_rank) < YieldOrder(b.yield_rank) THEN a ELSE b)
    ELSE IF a.frequency # b.frequency
    THEN (IF a.frequency > b.frequency THEN a ELSE b)
    ELSE a

ShorterForming(a, b) == IF a.forming < b.forming THEN a ELSE b

\* exactly two feasible candidates, their lateness no more than 0.01 h apart
TwoCloseCandidates ==
    /\ Selected
    /\ Len(FeasibleCandidates) = 2
    /\ Abs(FeasibleCandidates[1].lateness - FeasibleCandidates[2].lateness) <= 36

\* C8 as stated: of two feasible candidates whose lateness differs by no more
\* than 0.01 h the one with the smaller forming time is picked whenever
\* |forming difference| / max(forming) >= time_threshold_pct; below the
\* threshold yield rank, then higher frequency, then list position decide.
C8_FormingDecidesByRatioToMax ==
    TwoCloseCandidates =>
        LET a == FeasibleCandidates[1]
            b == FeasibleCandidates[2]
        IN /\ sel_result # NoneValue
           /\ sel_result.candidate =
                 IF Abs(a.forming - b.forming) * 100
                        >= config.time_threshold_pct * Max(a.forming, b.forming)
                 THEN ShorterForming(a, b)
                 ELSE ByYieldFrequencyPosition(a, b)

\* C8, amended: the relative difference is taken against
\* max(forming_a, forming_b, 0.01 h): the smaller forming time is picked
\* whenever |forming difference| / max(forming_a, forming_b, 0.01 h) >=
\* time_threshold_pct; below it yield rank, then higher frequency, then list
\* position decide.
C8_FormingDecidesByRatioToFlooredMax ==
    TwoCloseCandidates =>
        LET a == FeasibleCandidates[1]
            b == FeasibleCandidates[2]
        IN /\ sel_result # NoneValue
           /\ sel_result.candidate =
                 IF Abs(a.forming - b.forming) * 100
                        >= config.time_threshold_pct * Max(Max(a.forming, b.forming), 36)
                 THEN ShorterForming(a, b)
                 ELSE ByYieldFrequencyPosition(a, b)

\* C8 witness: the second candidate of a close pair is picked for its forming
\* time although its yield rank and its frequency are the worse ones
C8_Witness ==
    /\ TwoCloseCandidates
    /\ FeasibleCandidates[2].forming < FeasibleCandidates[1].forming
    /\ YieldOrder(FeasibleCandidates[2].yield_rank) > YieldOrder(FeasibleCandidates[1].yield_rank)
    /\ FeasibleCandidates[2].frequency < FeasibleCandidates[1].frequency
    /\ sel_result.candidate = FeasibleCandidates[2]
    /\ sel_result.reason = "forming_time"

\* the work intervals of the calendar that a block overlaps, in time order
OverlappedIntervals(b) ==
    SelectSeq(work_calendar_gaps,
              LAMBDA g: Max(b.start_time, g.gap_start) < Min(b.end_time, g.gap_end))

\* the blocks of the result that the splitter has produced for block b
PartsOf(b) ==
    SelectSeq(result.blocks,
              LAMBDA s: s.block_id = b.block_id \/ SubSeq(s.block_id, 1, 2) = b.block_id)

\* the sum of end_time - start_time over a list of blocks
RECURSIVE SumDuration(_)
SumDuration(blocks) ==
    IF blocks = << >> THEN 0
    ELSE (blocks[1].end_time - blocks[1].start_time) + SumDuration(Tail(blocks))

\* the total time of block b that lies inside work intervals
RECURSIVE WorkTimeInside(_, _)
WorkTimeInside(b, intervals) ==
    IF intervals = << >> THEN 0
    ELSE (Min(b.end_time, intervals[1].gap_end) - Max(b.start_time, intervals[1].gap_start))
         + WorkTimeInside(b, Tail(intervals))

\* C12: a committed block that overlaps two or more work intervals is split
\* into exactly one sub-block per overlapped interval, equal to
\* [max(block.start, iv.start), min(block.end, iv.end)], in time order, with
\* split_part = 1..n, total_splits = n, must_end_at_shift_end = true and
\* has_changeover false on every part after the first; a block that overlaps
\* at most one work interval is emitted unchanged.
C12_OneSubBlockPerWorkInterval ==
    (mode = "standard" /\ pc = "done") =>
        \A k \in 1..Len(CommittedBlocks) :
            LET b == CommittedBlocks[k]
                ivs == OverlappedIntervals(b)
                parts == PartsOf(b)
            IN IF Len(ivs) <= 1 THEN parts = << b >>
               ELSE /\ Len(parts) = Len(ivs)
                    /\ \A i \in 1..Len(parts) :
                          /\ parts[i].start_time = Max(b.start_time, ivs[i].gap_start)
                          /\ parts[i].end_time = Min(b.end_time, ivs[i].gap_end)
                          /\ parts[i].split_part = i
                          /\ parts[i].total_splits = Len(ivs)
                          /\ parts[i].must_end_at_shift_end
                          /\ (i > 1 => ~parts[i].has_changeover)
                          /\ parts[i].machine_id = b.machine_id
                          /\ parts[i].mo_ids = b.mo_ids

\* C12 witness: a finished run with a committed block split into two or more parts
C12_Witness ==
    /\ mode = "standard" /\ pc = "done"
    /\ \E k \in 1..Len(CommittedBlocks) :
          /\ Len(OverlappedIntervals(CommittedBlocks[k])) >= 2
          /\ Len(PartsOf(CommittedBlocks[k])) >= 2

\* C13 as stated: the durations of the sub-blocks produced for a committed
\* block b sum to b.end - b.start.
C13_PartsSumToBlockDuration ==
    (mode = "standard" /\ pc = "done") =>
        \A k \in 1..Len(CommittedBlocks) :
            SumDuration(PartsOf(CommittedBlocks[k])) =
                CommittedBlocks[k].end_time - CommittedBlocks[k].start_time

\* C13, amended: the durations of the sub-blocks produced for a committed
\* block b sum to the time of b that lies inside work intervals when b
\* overlaps two or more work intervals, and to b.end - b.start otherwise.
C13_PartsSumToWorkTimeOfBlock ==
    (mode = "standard" /\ pc = "done") =>
        \A k \in 1..Len(CommittedBlocks) :
            LET b == CommittedBlocks[k]
            IN SumDuration(PartsOf(b)) =
                  IF Len(OverlappedIntervals(b)) >= 2
                  THEN WorkTimeInside(b, OverlappedIntervals(b))
                  ELSE b.end_time - b.start_time

\* C13 witness: a finished run with a block whose parts leave out the time
\* between two work intervals
C13_Witness ==
    /\ mode = "standard" /\ pc = "done"
    /\ \E k \in 1..Len(CommittedBlocks) :
          /\ Len(PartsOf(CommittedBlocks[k])) >= 2
          /\ SumDuration(PartsOf(CommittedBlocks[k])) <
                CommittedBlocks[k].end_time - CommittedBlocks[k].start_time

\* the candidates selected for the sorted MOs against the blocks given at entry
SelectedAtEntry == SelectedCandidates(sorted_mos, existing_blocks)

\* the positions in sorted_mos of the MOs that share the component and the
\* selected machine of the MO at position i
SharingGroup(selected, i) ==
    { j \in 1..Len(sorted_mos) :
        /\ selected[j] # NoneValue
        /\ sorted_mos[j].component_code = sorted_mos[i].component_code
        /\ selected[j].machine_id = selected[i].machine_id }

\* the due dates of the group lie inside the merge window
InsideMergeWindow(group) ==
    \A i, j \in group :
        Abs(sorted_mos[i].ship_due - sorted_mos[j].ship_due) \div Days(1)
            <= config.merge_window_weeks * DaysPerWeek

\* the evaluation of the merged block of a group whose first MO is at position i
MergedEvaluation(selected, i, group) ==
    LET members == SelectSeq(sorted_mos, LAMBDA m: \E j \in group : sorted_mos[j] = m)
    IN evaluate_merge([component_code |-> sorted_mos[i].component_code,
                       machine_id |-> selected[i].machine_id,
                       mold_code |-> selected[i].mold_code,
                       mos |-> members,
                       total_quantity |-> SumQuantity(members),
                       earliest_due |-> MinDue(members),
                       first_mo_index |-> i],
                      existing_blocks, selected[i].start_time)

\* a group of two or more MOs that the claim expects to be merged
MergeExpected(selected, i) ==
    /\ selected[i] # NoneValue
    /\ \A j \in SharingGroup(selected, i) : i <= j
    /\ Cardinality(SharingGroup(selected, i)) >= 2
    /\ InsideMergeWindow(SharingGroup(selected, i))
    /\ \E evaluation \in { MergedEvaluation(selected, i, SharingGroup(selected, i)) } :
          /\ evaluation.is_feasible
          /\ evaluation.end_time <= MinDue(evaluation.merge_group.mos)

\* C17: in a run with merge_enabled = true, a group of two or more MMOs that
\* share (component_code, selected machine), with due dates inside the merge
\* window and a feasible merged block that ends no later than the earliest
\* due, is committed as exactly one block with is_merged = true whose mo_ids
\* are the members of the group, and no member has a block of its own.
C17_MergeableGroupCommittedAsOneBlock ==
    (mode = "standard" /\ pc = "done" /\ config.merge_enabled) =>
        \A selected \in { SelectedAtEntry } :
            \A i \in 1..Len(sorted_mos) :
                MergeExpected(selected, i) =>
                    LET ids == { sorted_mos[j].id : j \in SharingGroup(selected, i) }
                        carrying == { k \in 1..Len(CommittedBlocks) :
                                        SeqToSet(CommittedBlocks[k].mo_ids) \cap ids # {} }
                    IN /\ Cardinality(carrying) = 1
                       /\ \A k \in carrying :
                             /\ CommittedBlocks[k].is_merged
                             /\ SeqToSet(CommittedBlocks[k].mo_ids) = ids

\* the evaluations of the merge groups of the run
MergeEvaluations ==
    Eval(SelectedAtEntry,
         LAMBDA selected: optimize_merge_strategy(sorted_mos, selected, existing_blocks))

\* the sum of the quantities of a list of MOs
RECURSIVE MemberQuantity(_)
MemberQuantity(members) ==
    IF members = << >> THEN 0 ELSE members[1].quantity + MemberQuantity(Tail(members))

\* C18: for every accepted merge (evaluation with is_feasible = true) the
\* merged quantity is the sum of the members' quantities and the merged
\* block ends no later than the least due date of the members.
C18_MergeConservation ==
    (mode = "standard" /\ pc = "done") =>
        /\ \A evaluations \in { MergeEvaluations } :
              \A n \in 1..Len(evaluations) :
                 evaluations[n].is_feasible =>
                    /\ evaluations[n].merge_group.total_quantity =
                          MemberQuantity(evaluations[n].merge_group.mos)
                    /\ \A m \in SeqToSet(evaluations[n].merge_group.mos) :
                          evaluations[n].end_time <= m.ship_due
        /\ \A k \in 1..Len(merged_blocks) :
              \A id \in SeqToSet(merged_blocks[k].mo_ids) :
                 merged_blocks[k].end_time <= OrderOf(id).ship_due

\* C18 witness: a run that has accepted a merge and committed its block
C18_Witness ==
    /\ mode = "standard" /\ pc = "done"
    /\ merged_blocks # << >>
    /\ Len(merged_blocks[1].mo_ids) >= 2
    /\ \E n \in 1..Len(MergeEvaluations) : MergeEvaluations[n].is_feasible

-----------------------------------------------------------------------------
(* The order tables (database.py) as import_orders_excel.py fills them.
   A due date ('YYYY-MM-DD') is the number of its day; a None or 0 priority
   is 0 ("priority or 3" reads the two alike). *)

\* the product codes of the catalogue, in the order of sorted()
code_order == << "0P", "0Q", "0R", "1A", "1B", "1C", "1E", "1N", "6Y" >>

\* str.startswith(prefix), LIKE 'prefix%'
StartsWith(code, prefix) ==
    code \in (CASE prefix = "0" -> { "0P", "0Q", "0R" }
                [] prefix = "1" -> { "1A", "1B", "1C", "1E", "1N" }
                [] prefix = "6" -> { "6Y" })

\* table BOM
bom == <<
    [product_code |-> "0P", component_code |-> "1A"],
    [product_code |-> "0P", component_code |-> "1C"],
    [product_code |-> "0P", component_code |-> "6Y"],
    [product_code |-> "0Q", component_code |-> "1B"],
    [product_code |-> "0Q", component_code |-> "1A"],
    [product_code |-> "0Q", component_code |-> "1N"],
    [product_code |-> "0R", component_code |-> "1E"] >>

\* math.ceil(a / b) of non-negative integers, b > 0
Ceil(a, b) == (a + b - 1) \div b

\* the rows import_orders_excel.py adds for one new order line: the Order and
\* its Products (the finished product, the non-mold components, the molds)
ImportedOrder(order_id, order_number, product_code, quantity, due_date, inventory) ==
    [id |-> order_id, order_number |-> order_number, product_code |-> product_code,
     quantity |-> quantity, undelivered_quantity |-> Max(0, quantity - inventory[product_code]),
     due_date |-> due_date, priority |-> 3]

ImportedProducts(order_id, product_code, quantity, inventory) ==
    LET undelivered_qty == Max(0, quantity - inventory[product_code])
        bom_items == SelectSeq(bom, LAMBDA b : b.product_code = product_code)
        mold_items == SelectSeq(bom_items, LAMBDA b : StartsWith(b.component_code, "6"))
        non_mold_items == SelectSeq(bom_items, LAMBDA b : ~StartsWith(b.component_code, "6"))
        Row(code, q, u, type) ==
            [order_id |-> order_id, product_code |-> code, quantity |-> q,
             undelivered_quantity |-> u, product_type |-> type]
        non_mold == [i \in 1..Len(non_mold_items) |->
                        Row(non_mold_items[i].component_code, quantity,
                            Max(0, quantity - inventory[non_mold_items[i].component_code]),
                            "component")]
        one_prefix == SelectSeq(non_mold, LAMBDA p : StartsWith(p.product_code, "1"))
        base_undelivered_qty ==
            IF one_prefix # << >> THEN one_prefix[1].undelivered_quantity ELSE undelivered_qty
        MoldRow(b) ==
            LET mold_calc == SelectSeq(mold_calculations,
                                 LAMBDA r : r.component_code = b.component_code
                                            \/ r.mold_code = b.component_code)
                cavity_count == IF mold_calc # << >> /\ mold_calc[1].cavity_count # 0
                                THEN mold_calc[1].cavity_count ELSE 1
                required_quantity == IF base_undelivered_qty > 0
                                     THEN Ceil(base_undelivered_qty, cavity_count) ELSE 0
            IN  Row(b.component_code, required_quantity,
                    Max(0, required_quantity - inventory[b.component_code]), "component")
    IN  << Row(product_code, quantity, undelivered_qty, "finished") >>
        \o non_mold
        \o [i \in 1..Len(mold_items) |-> MoldRow(mold_items[i])]

\* the pass that ends the import: in every order the child components are set
\* to the finished product's undelivered_quantity, and the molds to the rounds
\* of the first child's undelivered_quantity as it was imported
AlignedProducts(products) ==
    LET finished == First(SelectSeq(products, LAMBDA p : p.product_type = "finished"))
        one_prefix_components ==
            SelectSeq(products, LAMBDA p : /\ p.product_type = "component"
                                           /\ StartsWith(p.product_code, "1"))
        base_undelivered_qty ==
            IF one_prefix_components # << >> THEN one_prefix_components[1].undelivered_quantity
            ELSE finished.undelivered_quantity
        Expected(comp) ==
            LET mold_calc == SelectSeq(mold_calculations,
                                 LAMBDA r : r.mold_code = comp.product_code
                                            \/ r.component_code = comp.product_code)
                cavity_count == IF mold_calc # << >> /\ mold_calc[1].cavity_count # 0
                                THEN mold_calc[1].cavity_count ELSE 1
            IN  IF base_undelivered_qty > 0 THEN Ceil(base_undelivered_qty, cavity_count) ELSE 0
    IN  [n \in 1..Len(products) |->
            IF products[n].product_type # "component" THEN products[n]
            ELSE IF StartsWith(products[n].product_code, "6")
            THEN [products[n] EXCEPT !.undelivered_quantity = Expected(products[n])]
            ELSE [products[n] EXCEPT !.undelivered_quantity = finished.undelivered_quantity]]

-----------------------------------------------------------------------------
(* mold_mo_generator.py *)

\* MoldMOGenerator._get_mold_info: None, or (mold_code, cavity_count, machine_id)
_get_mold_info(component_code) ==
    LET mold_calc == First(SelectSeq(mold_calculations,
                               LAMBDA r : r.component_code = component_code))
        data == First(SelectSeq(mold_data, LAMBDA r : r.component_code = component_code))
        Info(r) == [mold_code |-> r.mold_code,
                    cavity_count |-> IF r.cavity_count # 0 THEN r.cavity_count ELSE 1,
                    machine_id |-> r.machine_id]
    IN  IF mold_calc # NoneValue THEN Info(mold_calc)
        ELSE IF data # NoneValue THEN Info(data)
        ELSE NoneValue

\* "x.undelivered_quantity or x.quantity"
RequiredQuantity(product) ==
    IF product.undelivered_quantity # 0 THEN product.undelivered_quantity ELSE product.quantity

\* generate_mold_mos, step 1, for one order: the demands it appends, in order
OrderDemands(order_id, orders, products) ==
    LET order == First(SelectSeq(orders, LAMBDA o : o.id = order_id))
        finished_product ==
            First(SelectSeq(products, LAMBDA p : /\ p.order_id = order_id
                                                 /\ StartsWith(p.product_code, "0")
                                                 /\ p.product_type = "finished"))
        bom_items == SelectSeq(bom, LAMBDA b : b.product_code = finished_product.product_code)
        Demand(b) ==
            LET component_product ==
                    First(SelectSeq(products, LAMBDA p : /\ p.order_id = order_id
                                                         /\ p.product_code = b.component_code))
                mold_info == _get_mold_info(b.component_code)
            IN  IF component_product = NoneValue \/ mold_info = NoneValue THEN << >>
                ELSE << [order_id |-> order.id, order_number |-> order.order_number,
                         product_code |-> finished_product.product_code,
                         component_code |-> b.component_code,
                         component_qty |-> RequiredQuantity(component_product),
                         due_date |-> order.due_date,
                         priority |-> IF order.priority # 0 THEN order.priority ELSE 3,
                         mold_code |-> mold_info.mold_code,
                         cavity_count |-> mold_info.cavity_count,
                         machine_id |-> mold_info.machine_id] >>
    IN  IF order = NoneValue \/ finished_product = NoneValue THEN << >>
        ELSE Concat([i \in 1..Len(bom_items) |-> Demand(bom_items[i])])

\* sum(), min() over a non-empty list of numbers
RECURSIVE SumSeq(_)
SumSeq(s) == IF s = << >> THEN 0 ELSE Head(s) + SumSeq(Tail(s))

MinSeq(s) == CHOOSE x \in SeqToSet(s) : \A y \in SeqToSet(s) : x <= y

\* ','.join(codes)
RECURSIVE Join(_)
Join(codes) ==
    IF Len(codes) = 1 THEN codes[1] ELSE codes[1] \o "," \o Join(Tail(codes))

\* the MoldMO that keeps only its first demand
MoldMO_of_first_demand(mold_mo_id, mold_code, items_info) ==
    [id |-> mold_mo_id, mold_code |-> mold_code,
     component_code |-> items_info[1].component_code,
     total_quantity |-> items_info[1].component_qty,
     total_rounds |-> Ceil(items_info[1].component_qty, items_info[1].cavity_count),
     cavity_count |-> items_info[1].cavity_count,
     machine_id |-> items_info[1].machine_id,
     earliest_due_date |-> items_info[1].due_date,
     highest_priority |-> items_info[1].priority,
     scheduled_machine |-> 0, scheduled_start |-> 0, scheduled_end |-> 0,
     status |-> "PENDING"]

\* generate_mold_mos, step 2, for one mold: its MoldManufacturingOrder; the
\* columns scheduled_machine, scheduled_start and scheduled_end are None (0)
\* until a run sets them
MoldMO(mold_mo_id, mold_code, items_info) ==
    LET component_codes == { items_info[i].component_code : i \in 1..Len(items_info) }
        total_qty == SumSeq([i \in 1..Len(items_info) |-> items_info[i].component_qty])
        cavity_count == items_info[1].cavity_count
    IN  [id |-> mold_mo_id, mold_code |-> mold_code,
         component_code |-> Join(SelectSeq(code_order, LAMBDA c : c \in component_codes)),
         total_quantity |-> total_qty,
         total_rounds |-> IF cavity_count > 0 THEN Ceil(total_qty, cavity_count) ELSE 0,
         cavity_count |-> cavity_count,
         machine_id |-> items_info[1].machine_id,
         earliest_due_date |-> MinSeq([i \in 1..Len(items_info) |-> items_info[i].due_date]),
         highest_priority |-> MinSeq([i \in 1..Len(items_info) |-> items_info[i].priority]),
         scheduled_machine |-> 0, scheduled_start |-> 0, scheduled_end |-> 0,
         status |-> "PENDING"]

\* ... and its MoldOrderDetail rows, one per demand
MoldOrderDetails(mold_mo_id, items_info) ==
    [i \in 1..Len(items_info) |->
        [mold_mo_id |-> mold_mo_id, order_id |-> items_info[i].order_id,
         order_number |-> items_info[i].order_number,
         product_code |-> items_info[i].product_code,
         component_code |-> items_info[i].component_code,
         component_quantity |-> items_info[i].component_qty,
         component_rounds |-> IF items_info[1].cavity_count > 0
                              THEN Ceil(items_info[i].component_qty, items_info[1].cavity_count)
                              ELSE 0,
         due_date |-> items_info[i].due_date, priority |-> items_info[i].priority]]

\* MoldMOGenerator.generate_mold_mos: the rows it adds; uuids are the values
\* that uuid.uuid4() returns, one per mold
generate_mold_mos(order_ids, uuids, orders, products) ==
    LET demands == Concat([i \in 1..Len(order_ids) |->
                              OrderDemands(order_ids[i], orders, products)])
        \* the keys of mold_demands, in insertion order
        mold_codes == Distinct([i \in 1..Len(demands) |-> demands[i].mold_code])
        Items(k) == SelectSeq(demands, LAMBDA d : d.mold_code = mold_codes[k])
    IN  [mold_mos |-> [k \in 1..Len(mold_codes) |-> MoldMO(uuids[k], mold_codes[k], Items(k))],
         details  |-> Concat([k \in 1..Len(mold_codes) |->
                                 MoldOrderDetails(uuids[k], Items(k))])]

\* MoldMOGenerator.clear_mold_mos
clear_mold_mos ==
    /\ mode = "generate" /\ pc = "done"
    /\ db_mold_mos' = << >>
    /\ db_mold_details' = << >>
    /\ response' = NoneValue
    /\ pc' = "start"
    /\ UNCHANGED << inputs, selector_vars, db_orders, db_products, db_completions,
                    db_daily_blocks, request, first_layout, sorted_mos, idx, current_blocks,
                    merged_blocks, independent_blocks, merged_mo_ids, block_counter, result >>

\* the order_ids of a call: the orders of the table, some of them, an unknown id
OrderIdLists == { << "o1" >>, << "o1", "o2" >>, << "o2", "o1" >>, << "o9", "o2" >> }

\* the values of uuid.uuid4() in a call
UuidLists == { << "u1", "u2", "u3" >>, << "u3", "u1", "u2" >> }

\* a call of MoldMOGenerator.generate_mold_mos; the response is its return value
generate ==
    /\ mode = "generate" /\ pc = "start"
    /\ \E order_ids \in OrderIdLists, uuids \in UuidLists :
         \E generated \in { generate_mold_mos(order_ids, uuids, db_orders, db_products) } :
            /\ db_mold_mos' = db_mold_mos \o generated.mold_mos
            /\ db_mold_details' = db_mold_details \o generated.details
            /\ response' = [order_ids |-> order_ids, mold_mos |-> generated.mold_mos]
    /\ pc' = "done"
    /\ UNCHANGED << inputs, selector_vars, db_orders, db_products, db_completions,
                    db_daily_blocks, request, first_layout, sorted_mos, idx, current_blocks,
                    merged_blocks, independent_blocks, merged_mo_ids, block_counter, result >>

\* table Inventory: the stock of each product code
Stock(a, b, c, p) == [code \in SeqToSet(code_order) |->
                         CASE code = "1A" -> a [] code = "1B" -> b [] code = "1C" -> c
                           [] code = "0P" -> p [] OTHER -> 0]

InventoryTables == { Stock(0, 0, 0, 0), Stock(5, 0, 1, 0), Stock(0, 5, 0, 1), Stock(0, 0, 0, 2) }

FinishedCodes == { "0P", "0Q", "0R" }
OrderQuantities == { 2, 3 }
OrderDueDates == { 1, 3 }
\* the importer's priority (3) and one set by update_order
OrderPriorities == { 1, 3 }

\* the rows of one imported order line
OrderLine(n, product_code, quantity, due_date, priority, inventory) ==
    [order |-> [ImportedOrder(<< "o1", "o2" >>[n], << "N1", "N2" >>[n], product_code,
                              quantity, due_date, inventory) EXCEPT !.priority = priority],
     products |-> AlignedProducts(ImportedProducts(<< "o1", "o2" >>[n], product_code,
                                                   quantity, inventory))]

\* the tables after one or two order lines were imported against one inventory
ImportedTables ==
    \E inventory \in InventoryTables :
    \E c1 \in FinishedCodes, q1 \in OrderQuantities, d1 \in OrderDueDates, p1 \in OrderPriorities :
    \E first \in { OrderLine(1, c1, q1, d1, p1, inventory) } :
        \/ /\ db_orders = << first.order >>
           /\ db_products = first.products
        \/ \E c2 \in FinishedCodes, q2 \in OrderQuantities, d2 \in OrderDueDates :
           \E second \in { OrderLine(2, c2, q2, d2, 3, inventory) } :
              /\ db_orders = << first.order, second.order >>
              /\ db_products = first.products \o second.products

IdleEngine ==
    /\ mos = << >> /\ existing_blocks = << >>
    /\ config = Config(Combine(0, 8), FALSE, "no_merge")
    /\ work_calendar_gaps = << >> /\ work_calendar_days = << >> /\ downtimes = << >>

InitMMO ==
    /\ mode = "generate"
    /\ ImportedTables
    /\ db_mold_mos = << >> /\ db_mold_details = << >>
    /\ db_completions = << >> /\ db_daily_blocks = << >>
    /\ IdleEngine /\ IdleRun /\ IdleSelector /\ IdleService

NextMMO == generate \/ clear_mold_mos

SpecMMO == InitMMO /\ [][NextMMO]_vars

-----------------------------------------------------------------------------
(* Properties of generate_mold_mos *)

\* the MoldOrderDetail rows of a mold manufacturing order
DetailsOf(mold_mo) == SelectSeq(db_mold_details, LAMBDA d : d.mold_mo_id = mold_mo.id)

\* the mold of a detail's component, looked up in the mold catalogue
MoldOfDetail(d) ==
    LET rows == SelectSeq(mold_calculations, LAMBDA r : r.component_code = d.component_code)
             \o SelectSeq(mold_data, LAMBDA r : r.component_code = d.component_code)
    IN  rows[1].mold_code


\* C15: a call of generate_mold_mos emits exactly one mold manufacturing order per
\* distinct mold among the (order, child) pairs that contribute; its
\* total_quantity is the sum of its details' component_quantity, its total_rounds
\* is ceil(total_quantity / cavity_count), its earliest_due_date the minimum due
\* date and its highest_priority the minimum priority number of its details.
C15_OneMoldMOPerMoldWithAggregates ==
    (mode = "generate" /\ pc = "done") =>
        /\ \A i, j \in 1..Len(db_mold_mos) :
              i # j => /\ db_mold_mos[i].mold_code # db_mold_mos[j].mold_code
                       /\ db_mold_mos[i].id # db_mold_mos[j].id
        /\ \A k \in 1..Len(db_mold_details) :
              \E i \in 1..Len(db_mold_mos) :
                 /\ db_mold_details[k].mold_mo_id = db_mold_mos[i].id
                 /\ MoldOfDetail(db_mold_details[k]) = db_mold_mos[i].mold_code
        /\ \A i \in 1..Len(db_mold_mos) :
              \E details \in { DetailsOf(db_mold_mos[i]) } :
                 /\ details # << >>
                 /\ db_mold_mos[i].total_quantity =
                       SumSeq([k \in 1..Len(details) |-> details[k].component_quantity])
                 /\ db_mold_mos[i].cavity_count > 0
                 /\ db_mold_mos[i].total_rounds =
                       Ceil(db_mold_mos[i].total_quantity, db_mold_mos[i].cavity_count)
                 /\ \A k \in 1..Len(details) :
                       /\ db_mold_mos[i].earliest_due_date <= details[k].due_date
                       /\ db_mold_mos[i].highest_priority <= details[k].priority
                 /\ \E k \in 1..Len(details) :
                       db_mold_mos[i].earliest_due_date = details[k].due_date
                 /\ \E k \in 1..Len(details) :
                       db_mold_mos[i].highest_priority = details[k].priority

\* a call produced two mold manufacturing orders, one of them with details of
\* two orders that differ in due date and priority, the later and less urgent
\* first, and a total that is not a multiple of the cavity count
C15_Witness ==
    /\ mode = "generate" /\ pc = "done"
    /\ Len(db_mold_mos) >= 2
    /\ \E i \in 1..Len(db_mold_mos) :
          \E details \in { DetailsOf(db_mold_mos[i]) } :
             /\ Len(details) >= 2
             /\ details[1].order_id # details[2].order_id
             /\ details[1].due_date > details[2].due_date
             /\ details[1].priority > details[2].priority
             /\ details[2].component_quantity > 0
             /\ db_mold_mos[i].total_quantity % db_mold_mos[i].cavity_count # 0

\* C16: a child component whose undelivered_quantity is 0 contributes no demand:
\* no MoldOrderDetail is created for it (so it adds nothing to any total_quantity,
\* and a mold whose only demand it is gets no mold manufacturing order).
C16_ZeroUndeliveredContributesNothing ==
    (mode = "generate" /\ pc = "done") =>
        \A k \in 1..Len(db_mold_details) :
           \A n \in 1..Len(db_products) :
              ( /\ db_products[n].order_id = db_mold_details[k].order_id
                /\ db_products[n].product_code = db_mold_details[k].component_code
                /\ db_products[n].product_type = "component" )
              => db_products[n].undelivered_quantity # 0

-----------------------------------------------------------------------------
(* main.py: completion postings.  The Product and Order rows are those of the
   importer, whose undelivered_quantity is never None; ORDER BY created_at is
   the order of insertion. *)

\* a row of table DailyScheduleBlock; a None id is 0, status '已排程' is "scheduled"
DailyScheduleBlock(id, order_id, component_code, machine_id, start_time, end_time, sequence, total_sequences) ==
    [id |-> id, order_id |-> order_id, component_code |-> component_code,
     machine_id |-> machine_id, scheduled_date |-> DateOf(start_time),
     start_time |-> start_time, end_time |-> end_time, sequence |-> sequence,
     total_sequences |-> total_sequences, previous_block_id |-> 0, next_block_id |-> 0,
     status |-> "scheduled"]

\* the indices of the rows that pass a filter, in table order
Indices(rows, Test(_)) == SelectSeq([i \in 1..Len(rows) |-> i], LAMBDA i : Test(rows[i]))

\* no adjustment: the component row keeps its undelivered_quantity
AdjustedComponent_never(products, f, c) == products[c].undelivered_quantity

\* update_undelivered_quantity: the adjustment of one component row of an order
\* against one of its finished rows
AdjustedComponent(products, f, c) ==
    LET finished == products[f]
        comp == products[c]
        component_undelivered ==
            { products[k].undelivered_quantity :
                k \in { k \in 1..Len(products) : /\ products[k].order_id = comp.order_id
                                                 /\ products[k].product_type = "component"
                                                 /\ StartsWith(products[k].product_code, "1") } }
        base_qty ==
            IF component_undelivered # {}
            THEN Min(CHOOSE x \in component_undelivered : \A y \in component_undelivered : x <= y,
                     finished.undelivered_quantity)
            ELSE finished.undelivered_quantity
        mold_calc == First(SelectSeq(mold_calculations,
                               LAMBDA r : r.mold_code = comp.product_code))
        cavity_count == IF mold_calc # NoneValue /\ mold_calc.cavity_count # 0
                        THEN mold_calc.cavity_count ELSE 1
    IN  IF StartsWith(comp.product_code, "1")
        THEN Min(comp.undelivered_quantity, finished.undelivered_quantity)
        ELSE IF StartsWith(comp.product_code, "6")
        THEN (IF base_qty > 0 THEN Ceil(base_qty, cavity_count) ELSE 0)
        ELSE comp.undelivered_quantity

\* ... over the (finished, component) pairs of the order, in table order
RECURSIVE CascadeLoop(_, _)
CascadeLoop(products, pairs) ==
    IF pairs = << >> THEN products
    ELSE CascadeLoop([products EXCEPT ![pairs[1][2]].undelivered_quantity =
                          AdjustedComponent(products, pairs[1][1], pairs[1][2])],
                     Tail(pairs))

\* a cascade that clears the child components of the order
Cascade_clearing_components(products, order_id) ==
    [n \in 1..Len(products) |->
        IF products[n].order_id = order_id /\ products[n].product_type = "component"
        THEN [products[n] EXCEPT !.undelivered_quantity = 0] ELSE products[n]]

Cascade(products, order_id) ==
    LET finished_products ==
            Indices(products, LAMBDA p : p.order_id = order_id /\ p.product_type = "finished")
        component_products ==
            Indices(products, LAMBDA p : p.order_id = order_id /\ p.product_type = "component")
    IN  CascadeLoop(products,
            Concat([a \in 1..Len(finished_products) |->
                       [b \in 1..Len(component_products) |->
                           << finished_products[a], component_products[b] >>]]))

\* update_undelivered_quantity: the loop over the rows of the posted code
RECURSIVE DeductLoop(_, _, _, _)
DeductLoop(tables, rows, remaining, is_finished) ==
    IF rows = << >> \/ remaining <= 0 THEN tables
    ELSE LET product == tables.products[rows[1]]
             deduct_qty == Min(remaining, product.undelivered_quantity)
             order == Indices(tables.orders, LAMBDA o : o.id = product.order_id)
             sync == /\ is_finished /\ order # << >>
                     /\ tables.orders[order[1]].undelivered_quantity > 0
         IN  DeductLoop(
                 [orders |-> IF sync
                             THEN [tables.orders EXCEPT ![order[1]].undelivered_quantity =
                                                           Max(0, @ - deduct_qty)]
                             ELSE tables.orders,
                  products |-> Cascade([tables.products EXCEPT
                                           ![rows[1]].undelivered_quantity = @ - deduct_qty],
                                       product.order_id),
                  orders_to_check |-> IF sync THEN tables.orders_to_check \cup { product.order_id }
                                      ELSE tables.orders_to_check],
                 Tail(rows), remaining - deduct_qty, is_finished)

\* update_undelivered_quantity: the Order and Product tables after the posting
update_undelivered_quantity(product_code, completed_qty, orders, products) ==
    LET rows == Indices(products, LAMBDA p : /\ p.product_code = product_code
                                             /\ p.undelivered_quantity > 0)
        after == DeductLoop([orders |-> orders, products |-> products, orders_to_check |-> {}],
                            rows, completed_qty, StartsWith(product_code, "0"))
        \* the orders whose finished products are all at 0 are deleted with their products
        Finished(order_id) ==
            SelectSeq(after.products,
                      LAMBDA p : p.order_id = order_id /\ p.product_type = "finished")
        deleted == { order_id \in after.orders_to_check :
                        /\ \E i \in 1..Len(after.orders) : after.orders[i].id = order_id
                        /\ Finished(order_id) # << >>
                        /\ \A i \in 1..Len(Finished(order_id)) :
                              Finished(order_id)[i].undelivered_quantity = 0 }
    IN  [orders |-> SelectSeq(after.orders, LAMBDA o : o.id \notin deleted),
         products |-> SelectSeq(after.products, LAMBDA p : p.order_id \notin deleted)]

\* update_schedule_after_completion: TRUE when it raises.  Every block that the
\* join finds is printed with block.id[:8], and the id is an integer.
update_schedule_after_completion_raises(product_code, orders, daily_blocks) ==
    LET blocks == SelectSeq(daily_blocks,
                      LAMBDA b : /\ b.status = "scheduled"
                                 /\ \E i \in 1..Len(orders) :
                                       /\ orders[i].id = b.order_id
                                       /\ orders[i].product_code = product_code)
        first_block_order == First(SelectSeq(orders, LAMBDA o : o.id = blocks[1].order_id))
    IN  blocks # << >> /\ first_block_order.quantity # 0

\* no check: every completion_no is taken for new
completion_never_exists(completion_no, completions) == FALSE

\* the check that create_completion and create_completions_batch make first
completion_exists(completion_no, completions) ==
    \E i \in 1..Len(completions) : completions[i].completion_no = completion_no

\* one posting in its transaction: the outcome and the tables after it
Posting(data) ==
    IF completion_exists(data.completion_no, db_completions)
    THEN [outcome |-> "exists", orders |-> db_orders, products |-> db_products,
          completions |-> db_completions]
    ELSE IF update_schedule_after_completion_raises(data.finished_item_no,
                update_undelivered_quantity(data.finished_item_no, data.completed_qty,
                                            db_orders, db_products).orders,
                db_daily_blocks)
    THEN [outcome |-> "error", orders |-> db_orders, products |-> db_products,
          completions |-> db_completions]
    ELSE [outcome |-> "inserted",
          orders |-> update_undelivered_quantity(data.finished_item_no, data.completed_qty,
                                                 db_orders, db_products).orders,
          products |-> update_undelivered_quantity(data.finished_item_no, data.completed_qty,
                                                   db_orders, db_products).products,
          completions |-> Append(db_completions, data)]

CompletionCreate(completion_no, finished_item_no, completed_qty) ==
    [completion_no |-> completion_no, finished_item_no |-> finished_item_no,
     completed_qty |-> completed_qty]

\* the payloads of the postings
CompletionPayloads ==
    { CompletionCreate(no, code, qty) : no \in { "c1", "c2" }, code \in { "0P", "1A", "6Y" },
                                        qty \in { 1, 4 } }

\* the payload lists of the batch postings: two postings of one code
CompletionBatches ==
    { << first, second >> : first \in { p \in CompletionPayloads : p.completed_qty = 1 },
                            second \in { p \in CompletionPayloads : p.completed_qty = 4 } }
    \cap { payloads \in Seq(CompletionPayloads) :
              payloads[1].finished_item_no = payloads[2].finished_item_no }

\* POST /api/completions: 409 when the completion_no exists (the handler is
\* taken between requests: in a history of scheduling runs, after a run is saved)
create_completion ==
    /\ IF mode = "standard" THEN pc = "saved" ELSE mode = "completions" /\ request = NoneValue
    /\ \E data \in CompletionPayloads :
       \E posted \in { Posting(data) } :
          /\ db_orders' = posted.orders
          /\ db_products' = posted.products
          /\ db_completions' = posted.completions
          /\ response' = [kind |-> "create_completion", data |-> data,
                          status |-> CASE posted.outcome = "exists" -> 409
                                       [] posted.outcome = "error" -> 500
                                       [] OTHER -> 200]
    /\ UNCHANGED << inputs, selector_vars, db_mold_mos, db_mold_details, db_daily_blocks,
                    request, first_layout, pc, sorted_mos, idx, current_blocks,
                    merged_blocks, independent_blocks, merged_mo_ids, block_counter, result >>

\* POST /api/completions/batch: the request arrives
create_completions_batch_begin ==
    /\ mode = "completions" /\ request = NoneValue
    /\ \E payloads \in CompletionBatches :
          request' = [payloads |-> payloads, position |-> 1, inserted |-> 0,
                      skipped |-> 0, skipped_nos |-> << >>]
    /\ response' = NoneValue
    /\ UNCHANGED << inputs, selector_vars, database_vars, first_layout, pc,
                    sorted_mos, idx, current_blocks, merged_blocks, independent_blocks,
                    merged_mo_ids, block_counter, result >>

\* ... one payload is skipped, or applied and committed; an exception ends the request
create_completions_batch_step ==
    /\ mode = "completions" /\ request # NoneValue
    /\ request.position <= Len(request.payloads)
    /\ \E posted \in { Posting(request.payloads[request.position]) } :
          /\ db_orders' = posted.orders
          /\ db_products' = posted.products
          /\ db_completions' = posted.completions
          /\ IF posted.outcome = "error"
             THEN /\ request' = NoneValue
                  /\ response' = [kind |-> "create_completions_batch", status |-> 500]
             ELSE /\ request' =
                        IF posted.outcome = "exists"
                        THEN [request EXCEPT !.position = @ + 1, !.skipped = @ + 1,
                                 !.skipped_nos = Append(@, request.payloads[request.position].completion_no)]
                        ELSE [request EXCEPT !.position = @ + 1, !.inserted = @ + 1]
                  /\ UNCHANGED response
    /\ UNCHANGED << inputs, selector_vars, db_mold_mos, db_mold_details, db_daily_blocks,
                    first_layout, pc, sorted_mos, idx, current_blocks, merged_blocks,
                    independent_blocks, merged_mo_ids, block_counter, result >>

\* get_db with the changes that were not committed: all of them stay
SessionClosed_flushing(committed, pending) == pending

\* get_db: the session is closed when the request ends, and the changes that
\* were not committed are rolled back
SessionClosed(committed, pending) == committed

\* ... or the database raises while the payload is applied (at the latest in
\* db.commit(), with all the changes of the payload pending): the exception
\* ends the request; the response keeps the count of the payloads committed
create_completions_batch_raise ==
    /\ mode = "completions" /\ request # NoneValue
    /\ request.position <= Len(request.payloads)
    /\ \E posted \in { Posting(request.payloads[request.position]) } :
          /\ posted.outcome = "inserted"
          /\ db_orders' = SessionClosed(db_orders, posted.orders)
          /\ db_products' = SessionClosed(db_products, posted.products)
          /\ db_completions' = SessionClosed(db_completions, posted.completions)
    /\ request' = NoneValue
    /\ response' = [kind |-> "create_completions_batch", status |-> 500,
                    inserted |-> request.inserted]
    /\ UNCHANGED << inputs, selector_vars, db_mold_mos, db_mold_details, db_daily_blocks,
                    first_layout, pc, sorted_mos, idx, current_blocks, merged_blocks,
                    independent_blocks, merged_mo_ids, block_counter, result >>

\* ... and the counts are returned
create_completions_batch_end ==
    /\ mode = "completions" /\ request # NoneValue
    /\ request.position > Len(request.payloads)
    /\ response' = [kind |-> "create_completions_batch", status |-> 200,
                    inserted |-> request.inserted, skipped |-> request.skipped,
                    skipped_completion_nos |-> request.skipped_nos]
    /\ request' = NoneValue
    /\ UNCHANGED << inputs, selector_vars, database_vars, first_layout, pc, sorted_mos, idx,
                    current_blocks, merged_blocks, independent_blocks, merged_mo_ids,
                    block_counter, result >>

\* the tables when the postings start: one or two imported orders, and the
\* daily blocks of a mold manufacturing order that a run has saved
CompletionTables ==
    \E inventory \in InventoryTables, q1 \in OrderQuantities :
    \E first \in { OrderLine(1, "0P", q1, 1, 3, inventory) } :
        /\ \/ /\ db_orders = << first.order >>
              /\ db_products = first.products
           \/ \E c2 \in { "0P", "0Q" } :
              \E second \in { OrderLine(2, c2, 2, 3, 3, inventory) } :
                 /\ db_orders = << first.order, second.order >>
                 /\ db_products = first.products \o second.products
        /\ db_daily_blocks =
              << DailyScheduleBlock(1, "u1", "1A", 1, Combine(0, 8), Combine(0, 10), 1, 1) >>

InitCompletion ==
    /\ mode = "completions"
    /\ CompletionTables
    /\ db_mold_mos = << >> /\ db_mold_details = << >> /\ db_completions = << >>
    /\ IdleEngine /\ IdleRun /\ IdleSelector /\ IdleService

NextCompletion ==
    \/ create_completion
    \/ create_completions_batch_begin
    \/ create_completions_batch_step
    \/ create_completions_batch_raise
    \/ create_completions_batch_end

SpecCompletion == InitCompletion /\ [][NextCompletion]_vars

-----------------------------------------------------------------------------
(* Properties of the completion postings *)

\* the completion numbers of the rows of table Completion
PostedNos == { db_completions[i].completion_no : i \in 1..Len(db_completions) }

\* this step handles the single posting data
SinglePostingOf(data) ==
    /\ request = NoneValue /\ request' = NoneValue
    /\ response' # NoneValue
    /\ response'.kind = "create_completion" /\ response'.data = data

\* this step handles data as the next payload of the batch in progress
BatchPostingOf(data) ==
    /\ request # NoneValue
    /\ request.position <= Len(request.payloads)
    /\ request.payloads[request.position] = data
    /\ request' # request

DuplicatePostingChangesNothing ==
    \A data \in CompletionPayloads :
       ( /\ SinglePostingOf(data) \/ BatchPostingOf(data)
         /\ data.completion_no \in PostedNos )
       => /\ UNCHANGED << db_orders, db_products, db_daily_blocks, db_completions >>
          /\ SinglePostingOf(data) => response'.status = 409
          /\ BatchPostingOf(data) =>
                /\ request' # NoneValue
                /\ request'.skipped_nos = Append(request.skipped_nos, data.completion_no)

\* C19: a posting, single or in a batch, whose completion_no already exists
\* changes no undelivered quantity, order or schedule block (the single post gets
\* status 409, the batch lists it among the skipped numbers), and no
\* completion_no is ever recorded twice.
C19_DuplicateCompletionNoAppliedOnce ==
    /\ [](\A i, j \in 1..Len(db_completions) :
             i # j => db_completions[i].completion_no # db_completions[j].completion_no)
    /\ [][DuplicatePostingChangesNothing]_vars

\* a batch whose two payloads carry one completion_no has ended: the first was
\* applied to the Product rows, the second skipped and reported
C19_Witness ==
    /\ mode = "completions"
    /\ response # NoneValue
    /\ response.kind = "create_completions_batch" /\ response.status = 200
    /\ response.inserted = 1 /\ response.skipped = 1
    /\ Len(response.skipped_completion_nos) = 1
    /\ Len(db_completions) = 1
    /\ response.skipped_completion_nos[1] = db_completions[1].completion_no
    /\ \E n \in 1..Len(db_products) :
          /\ db_products[n].product_code = db_completions[1].finished_item_no
          /\ db_products[n].undelivered_quantity < db_products[n].quantity
          /\ db_products[n].undelivered_quantity > 0

\* the total undelivered_quantity of the Product rows with a code
TotalUndelivered(products, product_code) ==
    SumSeq([n \in 1..Len(products) |->
               IF products[n].product_code = product_code
               THEN products[n].undelivered_quantity ELSE 0])

\* the undelivered_quantity of the row of a code in an order; 0 once it is deleted
UndeliveredOf(products, order_id, product_code) ==
    SumSeq([n \in 1..Len(products) |->
               IF products[n].order_id = order_id /\ products[n].product_code = product_code
               THEN products[n].undelivered_quantity ELSE 0])

\* this step applies a posting: a row is added to table Completion
PostingApplied == Len(db_completions') = Len(db_completions) + 1

\* the rows of the code are drained in created_at order: when a later row is
\* reduced, every earlier row is at 0
DrainedInOrder(product_code) ==
    \A a, b \in 1..Len(db_products) :
       ( /\ a < b
         /\ db_products[a].product_code = product_code
         /\ db_products[b].product_code = product_code
         /\ UndeliveredOf(db_products', db_products[b].order_id, product_code)
               < db_products[b].undelivered_quantity )
       => UndeliveredOf(db_products', db_products[a].order_id, product_code) = 0

NeverNegative == \A n \in 1..Len(db_products') : db_products'[n].undelivered_quantity >= 0

\* C20 as stated: a posting of q for code P reduces the total undelivered_quantity
\* of the rows with code P by exactly min(q, previous total), draining the rows in
\* created_at order, and makes no undelivered_quantity negative.
C20_TotalReducedByExactlyMin ==
    [][ PostingApplied =>
          \E data \in { db_completions'[Len(db_completions')] } :
             /\ TotalUndelivered(db_products', data.finished_item_no)
                   = TotalUndelivered(db_products, data.finished_item_no)
                     - Min(data.completed_qty,
                           TotalUndelivered(db_products, data.finished_item_no))
             /\ DrainedInOrder(data.finished_item_no)
             /\ NeverNegative ]_vars

\* C20, amended: a posting of q for a finished product or child component code P
\* (a code starting with 0 or 1) reduces the total undelivered_quantity of the
\* rows with code P by exactly min(q, previous total), draining the rows in
\* created_at order; no posting, of any code, makes an undelivered_quantity
\* negative.
C20_FinishedOrChildTotalReducedByExactlyMin ==
    [][ PostingApplied =>
          \E data \in { db_completions'[Len(db_completions')] } :
             /\ NeverNegative
             /\ ( StartsWith(data.finished_item_no, "0")
                  \/ StartsWith(data.finished_item_no, "1") ) =>
                   /\ TotalUndelivered(db_products', data.finished_item_no)
                         = TotalUndelivered(db_products, data.finished_item_no)
                           - Min(data.completed_qty,
                                 TotalUndelivered(db_products, data.finished_item_no))
                   /\ DrainedInOrder(data.finished_item_no) ]_vars

\* completions were posted for a child component and for a finished product;
\* an order whose finished product was completed is gone, another one is
\* partly drained
C20_Witness ==
    /\ mode = "completions"
    /\ Len(db_completions) = 2
    /\ StartsWith(db_completions[1].finished_item_no, "1")
    /\ StartsWith(db_completions[2].finished_item_no, "0")
    /\ Len(db_orders) = 1
    /\ db_orders[1].id = "o2"
    /\ 0 < db_orders[1].undelivered_quantity
    /\ db_orders[1].undelivered_quantity < db_orders[1].quantity

-----------------------------------------------------------------------------
(* main.py: a scheduling run (POST /api/scheduling/run) and what it persists.
   The run modelled is the one of the standard branch, engine.schedule(mos, [])
   (line 1690): the test of line 1686 reads request.scheduling_mode, a field
   that SchedulingRequest (schemas_scheduling.py, lines 9-15) does not declare. *)

\* the rows when every daily block is saved as a group of its own
save_daily_schedule_blocks_ungrouped(blocks) ==
    LET all_daily_blocks == split_blocks_by_workday(blocks)
    IN  [i \in 1..Len(all_daily_blocks) |->
            DailyScheduleBlock(i, all_daily_blocks[i].mo_ids[1],
                               Join(all_daily_blocks[i].component_codes),
                               all_daily_blocks[i].machine_id, all_daily_blocks[i].start_time,
                               all_daily_blocks[i].end_time, 1, 1)]

\* save_daily_schedule_blocks: the rows of table DailyScheduleBlock after the
\* call.  The old rows are deleted, so the ids start again at 1, in the order
\* of insertion: group by group, and by start time inside a group
save_daily_schedule_blocks(blocks) ==
    LET all_daily_blocks == split_blocks_by_workday(blocks)
        keyed == SelectSeq(all_daily_blocks,
                           LAMBDA b : b.mo_ids # << >> /\ b.component_codes # << >>)
        Key(b) == << b.mo_ids[1], Join(b.component_codes), b.machine_id >>
        \* the keys of block_groups, in insertion order
        keys == Distinct([i \in 1..Len(keyed) |-> Key(keyed[i])])
        Group(k) == StableSort(SelectSeq(keyed, LAMBDA b : Key(b) = keys[k]),
                               LAMBDA a, b : a.start_time < b.start_time)
        Before(k) == SumSeq([j \in 1..(k - 1) |-> Len(Group(j))])
        Rows(k) ==
            LET group_blocks == Group(k)
                total_sequences == Len(group_blocks)
                first_id == Before(k) + 1
            IN  [i \in 1..total_sequences |->
                    [DailyScheduleBlock(first_id + i - 1, keys[k][1], keys[k][2], keys[k][3],
                                        group_blocks[i].start_time, group_blocks[i].end_time,
                                        i, total_sequences)
                        EXCEPT !.previous_block_id = IF i > 1 THEN first_id + i - 2 ELSE 0,
                               !.next_block_id = IF i < total_sequences THEN first_id + i ELSE 0]]
    IN  Concat([k \in 1..Len(keys) |-> Rows(k)])

\* run_scheduling, step 2: the ManufacturingOrder of each generated
\* MoldManufacturingOrder; earliest_due_date (a date) is parsed to its midnight
ManufacturingOrders(mold_mos) ==
    [i \in 1..Len(mold_mos) |->
        MO(mold_mos[i].id, mold_mos[i].component_code, mold_mos[i].total_rounds,
           Combine(mold_mos[i].earliest_due_date, 0), mold_mos[i].highest_priority)]

\* run_scheduling, step 3: the scheduling start.  The days with work_hours > 0
\* are the days of the work calendar gaps; the next of them, when it is later
\* than today, gives its 08:00, else the start is the clock's time
scheduling_start(now) ==
    LET work_days == SelectSeq(work_calendar_gaps,
                               LAMBDA g : DateOf(g.gap_start) >= DateOf(now))
    IN  IF work_days # << >> /\ DateOf(work_days[1].gap_start) > DateOf(now)
        THEN Combine(DateOf(work_days[1].gap_start), work_start_hour)
        ELSE now

\* run_scheduling, step 5: the MoldManufacturingOrder rows after the run.  Each
\* block of the result overwrites the columns of its MMOs, so the last one stays
ScheduledMoldMOs(mold_mos, blocks, failed_mos) ==
    [n \in 1..Len(mold_mos) |->
        LET last == BlockIndexOfMO(blocks, mold_mos[n].id)
        IN  IF last # 0
            THEN [mold_mos[n] EXCEPT !.scheduled_machine = blocks[last].machine_id,
                                     !.scheduled_start = blocks[last].start_time,
                                     !.scheduled_end = blocks[last].end_time,
                                     !.status = "scheduled"]
            ELSE IF mold_mos[n].id \in SeqToSet(failed_mos)
            THEN [mold_mos[n] EXCEPT !.status = "unschedulable"]
            ELSE mold_mos[n]]

\* the values that uuid.uuid4() can return in a run: ids that no row carries
RunUuidLists(mold_mos) ==
    { uuids \in UuidLists \cup { << "u4", "u5", "u6" >>, << "u6", "u4", "u5" >> } :
        \A i \in 1..Len(uuids) : \A n \in 1..Len(mold_mos) : mold_mos[n].id # uuids[i] }

\* the response of a run that ends before the engine is called
FailedRun == [kind |-> "run_scheduling", success |-> FALSE, blocks |-> << >>,
              scheduled_mos |-> << >>, failed_mos |-> << >>]

\* run_scheduling up to the call of the engine: the orders of the request,
\* clear_mold_mos when reschedule_all, generate_mold_mos, the MOs and the
\* configuration; without orders or without generated MMOs the run ends here.
\* A request that follows a finished run is the second run on the same
\* inputs: the layout of the first run is kept for the comparison
run_scheduling_begin ==
    /\ mode = "standard" /\ request # NoneValue
    /\ IF pc = "saved" THEN first_layout = NoneValue ELSE pc = "request"
    /\ first_layout' = IF pc = "saved" THEN [blocks |-> result.blocks] ELSE first_layout
    /\ \E orders \in { SelectSeq(db_orders, LAMBDA o :
                           request.order_ids = << >>
                           \/ o.order_number \in SeqToSet(request.order_ids)) } :
       \E kept \in { IF request.reschedule_all /\ orders # << >> THEN << << >>, << >> >>
                     ELSE << db_mold_mos, db_mold_details >> } :
       \E uuids \in RunUuidLists(kept[1]) :
       \E generated \in { generate_mold_mos([i \in 1..Len(orders) |-> orders[i].id], uuids,
                                            db_orders, db_products) } :
          /\ db_mold_mos' = kept[1] \o generated.mold_mos
          /\ db_mold_details' = kept[2] \o generated.details
          /\ mos' = ManufacturingOrders(generated.mold_mos)
          /\ pc' = IF generated.mold_mos # << >> THEN "start" ELSE "failed"
          /\ response' = IF generated.mold_mos # << >> THEN NoneValue ELSE FailedRun
    /\ config' = [Config(scheduling_start(request.now), request.merge_enabled, "no_merge")
                     EXCEPT !.merge_window_weeks = request.merge_window_weeks,
                            !.time_threshold_pct = request.time_threshold_pct]
    /\ existing_blocks' = << >>
    /\ sorted_mos' = << >> /\ idx' = 0 /\ current_blocks' = << >> /\ merged_blocks' = << >>
    /\ independent_blocks' = << >> /\ merged_mo_ids' = {} /\ block_counter' = 0
    /\ result' = EmptyResult
    /\ UNCHANGED << work_calendar_gaps, work_calendar_days, downtimes, mode, selector_vars,
                    db_orders, db_products,
                    db_completions, db_daily_blocks, request >>

\* run_scheduling after the engine has returned: the MMO rows are updated, the
\* daily blocks are replaced when the result has blocks, the response is built
run_scheduling_save ==
    /\ mode = "standard" /\ request # NoneValue /\ pc = "done"
    /\ db_mold_mos' = ScheduledMoldMOs(db_mold_mos, result.blocks, result.failed_mos)
    /\ db_daily_blocks' = IF result.blocks # << >> THEN save_daily_schedule_blocks(result.blocks)
                          ELSE db_daily_blocks
    /\ response' = [kind |-> "run_scheduling", success |-> result.success,
                    blocks |-> result.blocks, scheduled_mos |-> result.scheduled_mos,
                    failed_mos |-> result.failed_mos]
    /\ pc' = "saved"
    /\ UNCHANGED << inputs, selector_vars, db_orders, db_products, db_mold_details,
                    db_completions, request, first_layout, sorted_mos, idx, current_blocks,
                    merged_blocks, independent_blocks, merged_mo_ids, block_counter, result >>

\* the requests: all pending orders or the orders of some numbers, the
\* request's defaults for the merge window and the threshold, and the clock
SchedulingRequest(order_ids, merge_enabled, reschedule_all, now) ==
    [order_ids |-> order_ids, merge_enabled |-> merge_enabled, merge_window_weeks |-> 2,
     time_threshold_pct |-> 10, reschedule_all |-> reschedule_all, now |-> now]

RunOrderNumbers == { << >>, << "N1" >>, << "N9" >> }
RunClocks == { Combine(0, 8), Combine(0, 15), Combine(1, 9) }

\* the tables when the request arrives: one or two imported orders
RunTables ==
    \E inventory \in { Stock(0, 0, 0, 0), Stock(0, 0, 0, 2) }, q1 \in OrderQuantities :
    \E first \in { OrderLine(1, "0P", q1, 3, 3, inventory) } :
        \/ /\ db_orders = << first.order >>
           /\ db_products = first.products
        \/ \E c2 \in FinishedCodes :
           \E second \in { OrderLine(2, c2, 3, 3, 3, inventory) } :
              /\ db_orders = << first.order, second.order >>
              /\ db_products = first.products \o second.products

InitRun ==
    /\ mode = "standard"
    /\ RunTables
    /\ db_mold_mos = << >> /\ db_mold_details = << >>
    /\ db_completions = << >> /\ db_daily_blocks = << >>
    /\ mos = << >> /\ existing_blocks = << >>
    /\ config = Config(Combine(0, 8), FALSE, "no_merge")
    /\ \E cal \in Calendars : work_calendar_gaps = CalendarGaps(cal) /\ work_calendar_days = CalendarDays(cal)
    /\ downtimes = << >>
    /\ pc = "request"
    /\ sorted_mos = << >> /\ idx = 0
    /\ current_blocks = << >> /\ merged_blocks = << >> /\ independent_blocks = << >>
    /\ merged_mo_ids = {} /\ block_counter = 0
    /\ result = EmptyResult
    /\ IdleSelector
    /\ \E order_ids \in RunOrderNumbers, merge_enabled \in BOOLEAN, reschedule_all \in BOOLEAN,
          now \in RunClocks :
          request = SchedulingRequest(order_ids, merge_enabled, reschedule_all, now)
    /\ response = NoneValue /\ first_layout = NoneValue

NextRun ==
    \/ run_scheduling_begin
    \/ schedule_begin
    \/ schedule_fail
    \/ schedule_commit
    \/ schedule_finish
    \/ run_scheduling_save

SpecRun == InitRun /\ [][NextRun]_vars

-----------------------------------------------------------------------------
(* Properties of a scheduling run *)

\* the rows of table DailyScheduleBlock of one (order_id, machine_id)
DailyGroup(order_id, machine_id) ==
    { n \in 1..Len(db_daily_blocks) : /\ db_daily_blocks[n].order_id = order_id
                                      /\ db_daily_blocks[n].machine_id = machine_id }

\* the id of the row of a group that has a sequence (0 when there is none)
IdOfSequence(group, sequence) ==
    IF \E n \in group : db_daily_blocks[n].sequence = sequence
    THEN db_daily_blocks[CHOOSE n \in group : db_daily_blocks[n].sequence = sequence].id
    ELSE 0

\* C14: once a run has saved its daily blocks, in every group of
\* DailyScheduleBlock rows with the same (order_id, machine_id), n rows say:
\* the sequences are exactly 1..n, in the order of the start times;
\* total_sequences is n on every row; previous_block_id is null (0) on the row
\* of sequence 1 and only there, and else the id of the row of sequence - 1;
\* next_block_id is null on the row of sequence n and only there, and else the
\* id of the row of sequence + 1.
C14_SequenceWiring ==
    \A r \in 1..Len(db_daily_blocks) :
        LET row == db_daily_blocks[r]
            group == DailyGroup(row.order_id, row.machine_id)
            n == Cardinality(group)
        IN  /\ row.sequence \in 1..n
            /\ \A s \in group : s # r =>
                  /\ db_daily_blocks[s].sequence # row.sequence
                  /\ db_daily_blocks[s].id # row.id
                  /\ db_daily_blocks[s].sequence < row.sequence
                        => db_daily_blocks[s].start_time <= row.start_time
            /\ row.id # 0
            /\ row.total_sequences = n
            /\ row.previous_block_id = 0 <=> row.sequence = 1
            /\ row.sequence > 1 => row.previous_block_id = IdOfSequence(group, row.sequence - 1)
            /\ row.next_block_id = 0 <=> row.sequence = n
            /\ row.sequence < n => row.next_block_id = IdOfSequence(group, row.sequence + 1)

\* a run has saved the daily blocks of two MMOs, those of one of them in two parts
C14_Witness ==
    /\ pc = "saved" /\ response # NoneValue /\ response.blocks # << >>
    /\ \E r \in 1..Len(db_daily_blocks) : db_daily_blocks[r].total_sequences = 2
    /\ \E r, s \in 1..Len(db_daily_blocks) :
          db_daily_blocks[r].order_id # db_daily_blocks[s].order_id

\* what a layout says of each block, without and with the ids of its MMOs
Placement(blocks) ==
    [i \in 1..Len(blocks) |->
        [block_id |-> blocks[i].block_id, machine_id |-> blocks[i].machine_id,
         start_time |-> blocks[i].start_time, end_time |-> blocks[i].end_time]]

PlacementOfOrders(blocks) ==
    [i \in 1..Len(blocks) |->
        [block_id |-> blocks[i].block_id, mo_ids |-> blocks[i].mo_ids,
         machine_id |-> blocks[i].machine_id,
         start_time |-> blocks[i].start_time, end_time |-> blocks[i].end_time]]

\* the second of two runs on the same inputs has ended
SecondRunSaved == first_layout # NoneValue /\ pc = "saved" /\ response # NoneValue

-----------------------------------------------------------------------------
(* Properties of the rows that a completion leaves in an order *)

\* row n of table Product is one that the posting data deducts from: a row of
\* the posted code with undelivered_quantity > 0, reached before the completed
\* quantity is used up
DeductedRow(n, data) ==
    /\ db_products[n].product_code = data.finished_item_no
    /\ db_products[n].undelivered_quantity > 0
    /\ SumSeq([k \in 1..(n - 1) |->
                  IF db_products[k].product_code = data.finished_item_no
                  THEN db_products[k].undelivered_quantity ELSE 0]) < data.completed_qty

\* the cavity_count that the completion uses for a mold code
CavityOfMold(mold_code) ==
    LET mold_calc == First(SelectSeq(mold_calculations, LAMBDA r : r.mold_code = mold_code))
    IN  IF mold_calc # NoneValue /\ mold_calc.cavity_count # 0 THEN mold_calc.cavity_count ELSE 1

\* the rows of an order in the Product table after the step
RowsAfter(order_id) == SelectSeq(db_products', LAMBDA p : p.order_id = order_id)

\* in the rows of one order: every '1' component is at most the finished
\* product, every '6' mold is the rounds of the least of them
ComponentsFollowFinished(rows) ==
    LET finished == SelectSeq(rows, LAMBDA p : p.product_type = "finished")
        children == SelectSeq(rows, LAMBDA p : /\ p.product_type = "component"
                                               /\ StartsWith(p.product_code, "1"))
        least == MinSeq([i \in 1..(Len(children) + 1) |->
                            IF i <= Len(children) THEN children[i].undelivered_quantity
                            ELSE finished[1].undelivered_quantity])
    IN  \A i \in 1..Len(rows) :
           /\ (rows[i].product_type = "component" /\ StartsWith(rows[i].product_code, "1"))
                 => rows[i].undelivered_quantity <= finished[1].undelivered_quantity
           /\ (rows[i].product_type = "component" /\ StartsWith(rows[i].product_code, "6"))
                 => rows[i].undelivered_quantity = Ceil(least, CavityOfMold(rows[i].product_code))

\* C21: after a completion has been applied to a product row of order O, every
\* '1' component row of O has undelivered_quantity <= that of O's finished
\* product, and every '6' mold row of O has undelivered_quantity =
\* ceil(min(least component undelivered, finished undelivered) / cavity_count).
C21_ComponentsCappedMoldsRecomputed ==
    [][ PostingApplied =>
          \E data \in { db_completions'[Len(db_completions')] } :
             \A n \in 1..Len(db_products) :
                (DeductedRow(n, data) /\ RowsAfter(db_products[n].order_id) # << >>)
                   => ComponentsFollowFinished(RowsAfter(db_products[n].order_id)) ]_vars

\* one completion of a finished product was applied to an order that stays:
\* its components were lowered to the finished product's 2, its mold to 1 round
C21_Witness ==
    /\ mode = "completions"
    /\ Len(db_completions) = 1
    /\ db_completions[1].finished_item_no = "0P"
    /\ \E f, c, m \in 1..Len(db_products) :
          /\ db_products[f].order_id = "o1" /\ db_products[f].product_type = "finished"
          /\ db_products[f].quantity = 3 /\ db_products[f].undelivered_quantity = 2
          /\ db_products[c].order_id = "o1" /\ db_products[c].product_code = "1A"
          /\ db_products[c].undelivered_quantity = 2
          /\ db_products[m].order_id = "o1" /\ db_products[m].product_code = "6Y"
          /\ db_products[m].undelivered_quantity = 1

-----------------------------------------------------------------------------
(* Completions posted after a scheduling run *)

\* the orders are scheduled by one request for all pending orders, then
\* completions are posted, and the rest may be scheduled once more
InitRunCompletion ==
    /\ InitRun
    /\ request.order_ids = << >> /\ ~request.merge_enabled /\ ~request.reschedule_all
    /\ request.now = Combine(0, 8)
    /\ work_calendar_gaps = CalendarGaps(<< 8, 8, 8 >>)
    /\ \A i \in 1..Len(db_orders) : db_orders[i].product_code \in { "0P", "0Q" }

NextRunCompletion ==
    \/ run_scheduling_begin
    \/ schedule_begin
    \/ schedule_fail
    \/ schedule_commit
    \/ schedule_finish
    \/ run_scheduling_save
    \/ create_completion

SpecRunCompletion == InitRunCompletion /\ [][NextRunCompletion]_vars


\* the mold manufacturing orders that carry a component of an order
MoldMOsOfOrder(order_id) ==
    { db_mold_details[i].mold_mo_id :
         i \in { k \in 1..Len(db_mold_details) : db_mold_details[k].order_id = order_id } }

\* the rows of table DailyScheduleBlock, after the step, that a run saved for
\* the mold manufacturing orders of an order
DailyBlocksOfOrderAfter(order_id) ==
    SelectSeq(db_daily_blocks', LAMBDA b : b.order_id \in MoldMOsOfOrder(order_id))

\* the posting of this step brings every finished product of the order to 0
CompletesOrder(order_id) ==
    /\ PostingApplied
    /\ \E i \in 1..Len(db_products) :
          /\ db_products[i].order_id = order_id /\ db_products[i].product_type = "finished"
          /\ db_products[i].undelivered_quantity > 0
          /\ DeductedRow(i, db_completions'[Len(db_completions')])
          /\ db_completions'[Len(db_completions')].completed_qty
                - SumSeq([k \in 1..(i - 1) |->
                             IF db_products[k].product_code = db_products[i].product_code
                             THEN db_products[k].undelivered_quantity ELSE 0])
                >= db_products[i].undelivered_quantity

\* C22: when a completion brings every finished product of an order to
\* undelivered 0, no Order, Product or DailyScheduleBlock row of that order
\* remains after the commit.
C22_NoRowOfCompletedOrderRemains ==
    [][ \A order_id \in { "o1", "o2" } :
           CompletesOrder(order_id) =>
              /\ \A i \in 1..Len(db_orders') : db_orders'[i].id # order_id
              /\ \A i \in 1..Len(db_products') : db_products'[i].order_id # order_id
              /\ DailyBlocksOfOrderAfter(order_id) = << >> ]_vars


\* the daily blocks in status "scheduled" that a run saved for the mold
\* manufacturing orders of a finished product
DailyBlocksOfProduct(product_code) ==
    SelectSeq(db_daily_blocks,
       LAMBDA b : /\ b.status = "scheduled"
                  /\ \E k \in 1..Len(db_mold_details) :
                        /\ db_mold_details[k].mold_mo_id = b.order_id
                        /\ db_mold_details[k].product_code = product_code)

\* the quantity of the first order of a product
OriginalQuantity(product_code) ==
    First(SelectSeq(db_orders, LAMBDA o : o.product_code = product_code)).quantity

\* the daily block b is shrunk by completed_qty / original_quantity: gone when
\* nothing is left of its duration, else its start_time moved towards its end_time
ShrunkBy(b, completed_qty, original_quantity) ==
    IF completed_qty >= original_quantity
    THEN \A i \in 1..Len(db_daily_blocks') : db_daily_blocks'[i].id # b.id
    ELSE \E i \in 1..Len(db_daily_blocks') :
            /\ db_daily_blocks'[i].id = b.id
            /\ db_daily_blocks'[i].end_time = b.end_time
            /\ (db_daily_blocks'[i].end_time - db_daily_blocks'[i].start_time) * original_quantity
                  = (b.end_time - b.start_time) * (original_quantity - completed_qty)

\* C23: after a run has saved daily blocks, a completion of q > 0 for a
\* finished product shrinks each scheduled daily block of the product by
\* q / original_quantity: end_time stays, start_time advances by
\* duration * q / original_quantity, a block with nothing left is deleted.
C23_CompletionShrinksDailyBlocks ==
    [][ (PostingApplied /\ pc = "saved") =>
          \E data \in { db_completions'[Len(db_completions')] } :
             (StartsWith(data.finished_item_no, "0") /\ data.completed_qty > 0)
                => \A n \in 1..Len(DailyBlocksOfProduct(data.finished_item_no)) :
                      ShrunkBy(DailyBlocksOfProduct(data.finished_item_no)[n], data.completed_qty,
                               OriginalQuantity(data.finished_item_no)) ]_vars


\* this step is a batch posting that ends in an exception at the payload of
\* its position
BatchRaises ==
    /\ request # NoneValue /\ request' = NoneValue
    /\ request.position <= Len(request.payloads)
    /\ response' # NoneValue /\ response'.status = 500

\* C24: in a batch posting, when the processing of record k raises, the
\* completion rows and the undelivered quantities that the records 1..k-1 left
\* committed persist, and no change of record k persists.
C24_AcceptedRecordsStayFailingRecordLeavesNothing ==
    [][ BatchRaises =>
          /\ \A j \in 1..(request.position - 1) :
                \E i \in 1..Len(db_completions') :
                   db_completions'[i].completion_no = request.payloads[j].completion_no
          /\ db_completions' = db_completions
          /\ db_products' = db_products
          /\ db_orders' = db_orders ]_vars

\* a batch raised at its second record after its first one was committed: the
\* completion row of the first record and its deduction are in the tables
C24_Witness ==
    /\ mode = "completions" /\ request = NoneValue
    /\ response # NoneValue /\ response.kind = "create_completions_batch"
    /\ response.status = 500 /\ response.inserted = 1
    /\ Len(db_completions) = 1 /\ db_completions[1].finished_item_no = "0P"
    /\ db_orders[1].undelivered_quantity = db_orders[1].quantity - 1

-----------------------------------------------------------------------------
(* main.py: the scheduling run as the handler takes it *)

\* run_scheduling, after the mold manufacturing orders were generated and
\* committed: the test of line 1686 reads request.scheduling_mode, which a
\* SchedulingRequest does not have; the AttributeError is caught at line 1808
\* and the failure response is returned. Nothing is pending in the session.
run_scheduling_raise ==
    /\ mode = "standard" /\ request # NoneValue /\ pc = "start"
    /\ pc' = "failed"
    /\ response' = FailedRun
    /\ UNCHANGED << inputs, selector_vars, database_vars, request,
                    first_layout, sorted_mos, idx, current_blocks, merged_blocks,
                    independent_blocks, merged_mo_ids, block_counter, result >>

NextRunRaise ==
    \/ run_scheduling_begin
    \/ run_scheduling_raise

SpecRunRaise == InitRun /\ [][NextRunRaise]_vars

\* C25: a run that fails with an exception after it started to change the
\* database leaves the database as it was before the run (here: the empty
\* tables of the first run): no new MoldManufacturingOrder or MoldOrderDetail
\* row, no deleted or replaced daily block.
C25_FailedRunLeavesDatabaseAsBefore ==
    [][ (pc = "start" /\ pc' = "failed") =>
          /\ db_mold_mos' = << >> /\ db_mold_details' = << >>
          /\ db_daily_blocks' = << >> ]_vars

-----------------------------------------------------------------------------
(* main.py: update_schedules, the batch update after a drag in the chart *)

\* datetime.hour
HourOfDay(t) == (t % Days(1)) \div SecondsPerHour

\* schemas_scheduling.py: ScheduleUpdateItem. The id "<text>-<digits>" is the
\* pair of its text and the number at its end (-1: the id ends in no number);
\* startHour and endHour, floats in hours, are kept in minutes
ScheduleUpdateItem(id, orderId, startHour, endHour, machineId, scheduledDate, isModified) ==
    [id |-> id, orderId |-> orderId, startHour |-> startHour, endHour |-> endHour,
     machineId |-> machineId, scheduledDate |-> scheduledDate, isModified |-> isModified]

\* f"{b.order_id}-{b.sequence}"
BlockKey(b) == [text |-> b.order_id, number |-> b.sequence]

\* hour_to_dt: days, hours and minutes of the hour value, added to the date
hour_to_dt(base_date, hour) ==
    Combine(base_date, 0) + Days(hour \div (HoursPerDay * 60))
       + Hours((hour % (HoursPerDay * 60)) \div 60) + Minutes(hour % 60)

\* step 4: the block of the anchor: the one of the anchor's id, else the one at
\* the position that the number at the end of the id gives (blocks[seq - 1],
\* which for 0 is the last block)
AnchorBlock(blocks, anchor) ==
    LET by_key == SelectSeq(blocks, LAMBDA b : BlockKey(b) = anchor.id)
        seq == anchor.id.number
    IN  IF by_key # << >> THEN by_key[1]
        ELSE IF seq >= 0 /\ seq <= Len(blocks)
             THEN (IF seq = 0 THEN blocks[Len(blocks)] ELSE blocks[seq])
             ELSE NoneValue

\* where a block starts after the block prev: at its end, or at 08:00 of the day
\* of its end when that is before 08:00
StartAfter_prev_end(prev) == prev.end_time

StartAfter(prev) ==
    IF HourOfDay(prev.end_time) < 8 THEN Combine(DateOf(prev.end_time), 8) ELSE prev.end_time

\* the floor of the last block: 360 seconds
MinLastDuration == 360

\* without the compensation: the last block keeps its duration
LastDuration_kept(old_duration, anchor_duration_change) == old_duration

\* the duration of the last block when the first one changed
LastDuration(old_duration, anchor_duration_change) ==
    Max(old_duration - anchor_duration_change, MinLastDuration)

\* step 6: the blocks after the anchor, from position i on
RECURSIVE Ripple(_, _, _, _, _)
Ripple(blocks, i, prev, anchor_sequence, anchor_duration_change) ==
    IF i > Len(blocks) THEN blocks
    ELSE IF blocks[i].sequence <= anchor_sequence
    THEN Ripple(blocks, i + 1, prev, anchor_sequence, anchor_duration_change)
    ELSE LET b == blocks[i]
             old_duration == b.end_time - b.start_time
             new_duration ==
                IF b.sequence = Len(blocks) /\ anchor_duration_change # 0 /\ anchor_sequence = 1
                THEN LastDuration(old_duration, anchor_duration_change)
                ELSE old_duration
             moved == [b EXCEPT !.start_time = StartAfter(prev),
                                !.end_time = StartAfter(prev) + new_duration]
         IN  Ripple([blocks EXCEPT ![i] = moved], i + 1, moved, anchor_sequence,
                    anchor_duration_change)

\* step 7: the 08:00 rule of scheduled_date
ScheduledDate(b) ==
    [b EXCEPT !.scheduled_date = IF HourOfDay(b.start_time) < 8 THEN DateOf(b.start_time) - 1
                                 ELSE DateOf(b.start_time)]

\* one group of the request: the blocks of the order after it, whether they
\* count as updated, and whether an error is reported
UpdatedGroup(daily_blocks, order_id, updates) ==
    LET modified == SelectSeq(updates, LAMBDA u : u.isModified)
        anchor == modified[1]
        blocks == StableSort(SelectSeq(daily_blocks, LAMBDA b : b.order_id = order_id),
                             LAMBDA a, b : a.sequence < b.sequence)
        synced == [i \in 1..Len(blocks) |-> [blocks[i] EXCEPT !.machine_id = anchor.machineId]]
        anchor_block == AnchorBlock(synced, anchor)
        new_start == hour_to_dt(anchor.scheduledDate, anchor.startHour)
        new_end == hour_to_dt(anchor.scheduledDate, anchor.endHour)
        anchor_duration_change ==
            (new_end - new_start) - (anchor_block.end_time - anchor_block.start_time)
        placed == [anchor_block EXCEPT !.start_time = new_start, !.end_time = new_end]
        anchored == [i \in 1..Len(synced) |->
                        IF synced[i].id = anchor_block.id THEN placed ELSE synced[i]]
    IN  IF modified = << >> THEN [blocks |-> blocks, updated |-> 0, errors |-> 0]
        ELSE IF blocks = << >> THEN [blocks |-> blocks, updated |-> 0, errors |-> 1]
        ELSE IF anchor_block = NoneValue THEN [blocks |-> synced, updated |-> 0, errors |-> 1]
        ELSE [blocks |-> MapSeq(Ripple(anchored, 1, placed, anchor_block.sequence,
                                       anchor_duration_change), ScheduledDate),
              updated |-> Len(blocks), errors |-> 0]

\* the groups of the request one after the other, on the table
RECURSIVE UpdatedGroups(_, _, _)
UpdatedGroups(daily_blocks, order_ids, updates) ==
    IF order_ids = << >> THEN [blocks |-> daily_blocks, updated |-> 0, errors |-> 0]
    ELSE LET group == UpdatedGroup(daily_blocks, order_ids[1],
                                   SelectSeq(updates, LAMBDA u : u.orderId = order_ids[1]))
             table == [i \in 1..Len(daily_blocks) |->
                          IF \E k \in 1..Len(group.blocks) : group.blocks[k].id = daily_blocks[i].id
                          THEN group.blocks[CHOOSE k \in 1..Len(group.blocks) :
                                               group.blocks[k].id = daily_blocks[i].id]
                          ELSE daily_blocks[i]]
             rest == UpdatedGroups(table, Tail(order_ids), updates)
         IN  [blocks |-> rest.blocks, updated |-> group.updated + rest.updated,
              errors |-> group.errors + rest.errors]

\* the ids of the anchors: the key of a block, an id of a split block that ends
\* in a number, an id that ends in none
AnchorIds(order_id) ==
    { [text |-> order_id, number |-> k] : k \in 1..3 }
    \cup { [text |-> "split-7", number |-> k] : k \in { 0, 2 } }
    \cup { [text |-> "split", number |-> -1] }

\* the times of a dragged block, in minutes from 00:00 of its date
DragHours == { << 480, 1020 >>, << 480, 960 >>, << 540, 1200 >>, << 1080, 1560 >>,
               << 480, 1075 >> }

\* the update items of a request: the drags of a block of u1, of the block of
\* u2, of a block of an order that is not in the table, and an item that is
\* not modified
ScheduleUpdateItems ==
    { ScheduleUpdateItem(id, "u1", hours[1], hours[2], machine_id, 0, TRUE) :
         id \in AnchorIds("u1"), hours \in DragHours, machine_id \in { 1, 2 } }
    \cup { ScheduleUpdateItem([text |-> "u2", number |-> 1], "u2", hours[1], hours[2], 1, 1, TRUE) :
              hours \in { << 480, 720 >>, << 0, 120 >> } }
    \cup { ScheduleUpdateItem([text |-> "u9", number |-> 1], "u9", 480, 720, 1, 0, TRUE),
            ScheduleUpdateItem([text |-> "u1", number |-> 1], "u1", 600, 720, 2, 0, FALSE) }

\* the requests: one item, or the items of two groups
ScheduleUpdateRequests ==
    { << u >> : u \in ScheduleUpdateItems }
    \cup { << u, v >> : u \in { i \in ScheduleUpdateItems : i.orderId = "u2" },
                        v \in { i \in ScheduleUpdateItems :
                                   /\ i.orderId = "u1" /\ i.machineId = 1 /\ i.id.text = "u1"
                                   /\ i.endHour = 960 } }

\* the requests of one history
MaxUpdates == 2

\* PUT /api/scheduling/schedules/batch
update_schedules ==
    /\ mode = "drag"
    /\ IF request = NoneValue THEN TRUE ELSE request.served < MaxUpdates
    /\ \E updates \in ScheduleUpdateRequests :
       \E done \in { UpdatedGroups(db_daily_blocks,
                                   Distinct([i \in 1..Len(updates) |-> updates[i].orderId]),
                                   updates) } :
          /\ db_daily_blocks' = done.blocks
          /\ request' = [updates |-> updates,
                         served |-> IF request = NoneValue THEN 1 ELSE request.served + 1]
          /\ response' = [kind |-> "update_schedules", success |-> TRUE,
                          updated_count |-> done.updated, errors |-> done.errors]
    /\ UNCHANGED << inputs, selector_vars, db_orders, db_products, db_mold_mos, db_mold_details,
                    db_completions, first_layout, pc, sorted_mos, idx, current_blocks,
                    merged_blocks, independent_blocks, merged_mo_ids, block_counter, result >>

\* the table when the requests start: the daily blocks that a run saved for two
\* mold manufacturing orders, u1 in two or three blocks and u2 in one
DragTables ==
    \E last \in { Minutes(10), Hours(2) }, n \in { 2, 3 } :
       db_daily_blocks =
          [i \in 1..n |->
              [DailyScheduleBlock(i, "u1", "1A", 1, Combine(i - 1, 8),
                                  Combine(i - 1, 8) + (IF i = n THEN last ELSE Hours(9)), i, n)
                  EXCEPT !.previous_block_id = i - 1,
                         !.next_block_id = IF i = n THEN 0 ELSE i + 1]]
          \o << DailyScheduleBlock(n + 1, "u2", "1C", 2, Combine(0, 8), Combine(0, 12), 1, 1) >>

InitDrag ==
    /\ mode = "drag"
    /\ DragTables
    /\ db_orders = << >> /\ db_products = << >>
    /\ db_mold_mos = << >> /\ db_mold_details = << >> /\ db_completions = << >>
    /\ IdleEngine /\ IdleRun /\ IdleSelector /\ IdleService

NextDrag == update_schedules

SpecDrag == InitDrag /\ [][NextDrag]_vars


\* the blocks of an order in a table, by sequence
GroupOf(daily_blocks, order_id) ==
    StableSort(SelectSeq(daily_blocks, LAMBDA b : b.order_id = order_id),
               LAMBDA a, b : a.sequence < b.sequence)

\* the anchor of the group of an order in the request of this step
AnchorOf(order_id) ==
    First(SelectSeq(request'.updates, LAMBDA u : u.orderId = order_id /\ u.isModified))

\* this step is a request that processes the group of the order: the group has
\* an anchor and the anchor's block is found
GroupProcessed(order_id) ==
    /\ request' # request /\ response'.kind = "update_schedules"
    /\ AnchorOf(order_id) # NoneValue
    /\ GroupOf(db_daily_blocks, order_id) # << >>
    /\ AnchorBlock(GroupOf(db_daily_blocks, order_id), AnchorOf(order_id)) # NoneValue

\* the sequence of the anchor's block, and the change of its duration
AnchorSequence(order_id) ==
    AnchorBlock(GroupOf(db_daily_blocks, order_id), AnchorOf(order_id)).sequence

AnchorDurationChange(order_id) ==
    LET old == AnchorBlock(GroupOf(db_daily_blocks, order_id), AnchorOf(order_id))
        new == GroupOf(db_daily_blocks', order_id)[AnchorSequence(order_id)]
    IN  (new.end_time - new.start_time) - (old.end_time - old.start_time)

\* the last block of the group is under the compensation rule in this step
Compensated(order_id, i) ==
    /\ i = Len(GroupOf(db_daily_blocks, order_id))
    /\ AnchorSequence(order_id) = 1
    /\ AnchorDurationChange(order_id) # 0

Duration(b) == b.end_time - b.start_time

\* the blocks after the anchor keep their durations, the compensated one excepted
LaterBlocksKeepDuration(order_id) ==
    \A i \in 1..Len(GroupOf(db_daily_blocks, order_id)) :
       (i > AnchorSequence(order_id) /\ ~Compensated(order_id, i))
          => Duration(GroupOf(db_daily_blocks', order_id)[i])
                = Duration(GroupOf(db_daily_blocks, order_id)[i])

\* C26 as stated: after update_schedules has processed a group with anchor
\* sub-block k, every sub-block with sequence > k starts exactly at the end of
\* the sub-block of the preceding sequence and keeps its duration (the last one
\* excepted under the compensation rule).
C26_LaterBlocksStartAtPrecedingEnd ==
    [][ \A order_id \in { "u1", "u2" } :
           GroupProcessed(order_id) =>
              /\ \A i \in 2..Len(GroupOf(db_daily_blocks', order_id)) :
                    i > AnchorSequence(order_id)
                       => GroupOf(db_daily_blocks', order_id)[i].start_time
                             = GroupOf(db_daily_blocks', order_id)[i - 1].end_time
              /\ LaterBlocksKeepDuration(order_id) ]_vars

\* C26 amended: ... every sub-block with sequence > k starts at the end of the
\* sub-block of the preceding sequence, or at 08:00 of the day of that end
\* when the preceding sub-block ends before 08:00, and keeps its duration (the
\* last one excepted under the compensation rule).
C26_LaterBlocksStartAtPrecedingEndOrEight ==
    [][ \A order_id \in { "u1", "u2" } :
           GroupProcessed(order_id) =>
              /\ \A i \in 2..Len(GroupOf(db_daily_blocks', order_id)) :
                    i > AnchorSequence(order_id)
                       => \E before \in { GroupOf(db_daily_blocks', order_id)[i - 1].end_time } :
                             GroupOf(db_daily_blocks', order_id)[i].start_time
                                = IF HourOfDay(before) < 8 THEN Combine(DateOf(before), 8)
                                  ELSE before
              /\ LaterBlocksKeepDuration(order_id) ]_vars

\* a drag of the first block of u1 was processed: the first block ends at 02:00
\* and the second one starts at 08:00 of that day with its nine hours
C26_Witness ==
    /\ mode = "drag" /\ request # NoneValue
    /\ response.kind = "update_schedules" /\ response.updated_count = 3
    /\ request.updates[1].orderId = "u1" /\ request.updates[1].id = [text |-> "u1", number |-> 1]
    /\ \E group \in { GroupOf(db_daily_blocks, "u1") } :
          /\ Len(group) = 3
          /\ HourOfDay(group[1].end_time) = 2
          /\ group[2].start_time = Combine(DateOf(group[1].end_time), 8)
          /\ Duration(group[2]) = Hours(9)
          /\ group[3].start_time = group[2].end_time

\* C27: when the anchor is sequence 1 of a group of at least two sub-blocks
\* and its duration changes by D, the sum of the durations of the group after
\* update_schedules is the sum before it, unless the last sub-block would
\* fall below 6 minutes: then the last sub-block lasts exactly 6 minutes.
C27_TotalDurationConserved ==
    [][ \A order_id \in { "u1", "u2" } :
           ( /\ GroupProcessed(order_id)
             /\ AnchorSequence(order_id) = 1
             /\ Len(GroupOf(db_daily_blocks, order_id)) >= 2 )
           => \E before \in { GroupOf(db_daily_blocks, order_id) },
                 after \in { GroupOf(db_daily_blocks', order_id) } :
                 IF Duration(before[Len(before)]) - AnchorDurationChange(order_id) < Minutes(6)
                 THEN Duration(after[Len(after)]) = Minutes(6)
                 ELSE SumSeq([i \in 1..Len(after) |-> Duration(after[i])])
                         = SumSeq([i \in 1..Len(before) |-> Duration(before[i])]) ]_vars

\* the first block of u1 was dragged to a longer duration and the last block,
\* ten minutes long before, is at the floor of six minutes
C27_Witness ==
    /\ mode = "drag" /\ request # NoneValue /\ request.served = 1
    /\ response.kind = "update_schedules" /\ response.updated_count >= 2
    /\ request.updates[1].id = [text |-> "u1", number |-> 1]
    /\ request.updates[1].endHour - request.updates[1].startHour = 660
    /\ \E group \in { GroupOf(db_daily_blocks, "u1") } :
          /\ Duration(group[1]) = Hours(11)
          /\ Duration(group[Len(group)]) = Minutes(6)

-----------------------------------------------------------------------------
(* main.py: the work calendar and its gaps *)

\* data of POST /api/work-calendar and the items of "days" of the batch:
\* work_date (-1: none), work_hours and start_time with their defaults 0, "08:00"
WorkCalendarData(work_date, work_hours, start_time) ==
    [work_date |-> work_date, work_hours |-> work_hours, start_time |-> start_time]

\* the table WorkCalendarDay after one item: the row of the date is overwritten,
\* or a row is added
UpsertedDay(days, data) ==
    IF \E i \in 1..Len(days) : days[i].work_date = data.work_date
    THEN [i \in 1..Len(days) |->
             IF days[i].work_date = data.work_date
             THEN WorkCalendarDay(data.work_date, data.work_hours, data.start_time)
             ELSE days[i]]
    ELSE Append(days, WorkCalendarDay(data.work_date, data.work_hours, data.start_time))

\* the loop of batch_upsert_work_calendar; an item without work_date is skipped
RECURSIVE UpsertedDays(_, _)
UpsertedDays(days, items) ==
    IF items = << >> THEN days
    ELSE UpsertedDays(IF Head(items).work_date < 0 THEN days ELSE UpsertedDay(days, Head(items)),
                      Tail(items))

\* no delete: the old gaps of the date stay
GapsOfOtherDates_and_this(gaps, work_date) == gaps

\* regenerate_work_calendar_gaps: the old gaps of the date are deleted
GapsOfOtherDates(gaps, work_date) == SelectSeq(gaps, LAMBDA g : g.work_date # work_date)

\* ... and one gap is added for a day with work_hours > 0, from its start_time
\* for work_hours + 1 hours
GapOfDay(work_day) ==
    LET start_datetime == Combine(work_day.work_date, work_day.start_time[1])
                             + Minutes(work_day.start_time[2])
    IN  [work_date |-> work_day.work_date,
         gap_start |-> start_datetime,
         gap_end |-> start_datetime + Hours(work_day.work_hours + break_hours),
         duration_hours |-> work_day.work_hours + break_hours]

\* regenerate_work_calendar_gaps over the affected dates, in the order in which
\* the set is iterated
RECURSIVE regenerate_work_calendar_gaps(_, _, _)
regenerate_work_calendar_gaps(gaps, days, dates) ==
    IF dates = << >> THEN gaps
    ELSE LET work_day == First(SelectSeq(days, LAMBDA d : d.work_date = Head(dates)))
             kept == GapsOfOtherDates(gaps, Head(dates))
         IN  regenerate_work_calendar_gaps(
                IF work_day = NoneValue THEN kept
                ELSE IF work_day.work_hours <= 0 THEN kept
                ELSE Append(kept, GapOfDay(work_day)),
                days, Tail(dates))

\* the orders in which a set of dates is iterated
Orderings(dates) ==
    { order \in [1..Cardinality(dates) -> dates] :
         \A i, j \in 1..Cardinality(dates) : order[i] = order[j] => i = j }

\* the dates, work hours and start times of the requests
CalendarDates == { 0, 1 }
CalendarWorkHours == { 0, 8, 16 }
CalendarStartTimes == { << 8, 0 >>, << 7, 30 >> }

CalendarItems ==
    { WorkCalendarData(work_date, work_hours, start_time) :
         work_date \in CalendarDates \cup { -1 }, work_hours \in CalendarWorkHours,
         start_time \in CalendarStartTimes }

\* POST /api/work-calendar: 400 without work_date
upsert_work_calendar_day ==
    /\ mode = "calendar"
    /\ \E data \in CalendarItems :
          IF data.work_date < 0
          THEN /\ response' = [kind |-> "upsert_work_calendar_day", status |-> 400]
               /\ UNCHANGED << work_calendar_days, work_calendar_gaps >>
          ELSE /\ work_calendar_days' = UpsertedDay(work_calendar_days, data)
               /\ work_calendar_gaps' =
                     regenerate_work_calendar_gaps(work_calendar_gaps,
                        UpsertedDay(work_calendar_days, data), << data.work_date >>)
               /\ response' = [kind |-> "upsert_work_calendar_day", status |-> 200]
    /\ UNCHANGED << mos, existing_blocks, config, downtimes, mode, selector_vars,
                    database_vars, request, first_layout, pc, sorted_mos, idx, current_blocks,
                    merged_blocks, independent_blocks, merged_mo_ids, block_counter, result >>

\* POST /api/work-calendar/batch
batch_upsert_work_calendar ==
    /\ mode = "calendar"
    /\ \E first \in CalendarItems, second \in CalendarItems :
       \E dates \in Orderings({ first.work_date, second.work_date } \ { -1 }) :
          /\ work_calendar_days' = UpsertedDays(work_calendar_days, << first, second >>)
          /\ work_calendar_gaps' =
                regenerate_work_calendar_gaps(work_calendar_gaps,
                   UpsertedDays(work_calendar_days, << first, second >>), dates)
          /\ response' = [kind |-> "batch_upsert_work_calendar", status |-> 200, saved |-> 2]
    /\ UNCHANGED << mos, existing_blocks, config, downtimes, mode, selector_vars,
                    database_vars, request, first_layout, pc, sorted_mos, idx, current_blocks,
                    merged_blocks, independent_blocks, merged_mo_ids, block_counter, result >>

\* the calendar when the requests start: empty, or the days of a calendar with
\* their gaps
InitCalendar ==
    /\ mode = "calendar"
    /\ \/ work_calendar_days = << >> /\ work_calendar_gaps = << >>
       \/ \E cal \in Calendars :
             work_calendar_gaps = CalendarGaps(cal) /\ work_calendar_days = CalendarDays(cal)
    /\ mos = << >> /\ existing_blocks = << >> /\ downtimes = << >>
    /\ config = Config(Combine(0, 8), FALSE, "no_merge")
    /\ IdleRun /\ IdleSelector /\ IdleDatabase /\ IdleService

NextCalendar ==
    \/ upsert_work_calendar_day
    \/ batch_upsert_work_calendar

SpecCalendar == InitCalendar /\ [][NextCalendar]_vars

\* the gaps of a date
GapsOfDate(work_date) == SelectSeq(work_calendar_gaps, LAMBDA g : g.work_date = work_date)

\* C28: after any sequence of single-day and batch upserts, for every date of
\* the calendar: when its work_hours > 0, WorkCalendarGap has exactly one row of
\* the date, with gap_start = date + start_time and gap_end - gap_start =
\* duration_hours = work_hours + 1 hours; when its work_hours is 0 it has none;
\* no gap of an earlier value of the day remains.
C28_OneGapPerWorkDay ==
    /\ \A i \in 1..Len(work_calendar_days) :
          \E day \in { work_calendar_days[i] } :
             IF day.work_hours > 0
             THEN /\ Len(GapsOfDate(day.work_date)) = 1
                  /\ \E gap \in { GapsOfDate(day.work_date)[1] } :
                        /\ gap.gap_start = Combine(day.work_date, day.start_time[1])
                                              + Minutes(day.start_time[2])
                        /\ gap.gap_end - gap.gap_start = Hours(gap.duration_hours)
                        /\ gap.duration_hours = day.work_hours + 1
             ELSE GapsOfDate(day.work_date) = << >>
    /\ \A k \in 1..Len(work_calendar_gaps) :
          \E i \in 1..Len(work_calendar_days) :
             work_calendar_days[i].work_date = work_calendar_gaps[k].work_date

\* day 0 was changed from 8 hours at 08:00 to 16 hours at 07:30 and day 1 was
\* made a holiday: one gap of 17 hours from 07:30 for day 0, none for day 1
C28_Witness ==
    /\ mode = "calendar" /\ response # NoneValue /\ response.status = 200
    /\ \E i, j \in 1..Len(work_calendar_days) :
          /\ work_calendar_days[i] = WorkCalendarDay(0, 16, << 7, 30 >>)
          /\ work_calendar_days[j] = WorkCalendarDay(1, 0, << 7, 30 >>)
    /\ GapsOfDate(0) = << [work_date |-> 0, gap_start |-> Combine(0, 7) + Minutes(30),
                           gap_end |-> Combine(1, 0) + Minutes(30), duration_hours |-> 17] >>
    /\ GapsOfDate(1) = << >>
    /\ Len(GapsOfDate(2)) = 1

-----------------------------------------------------------------------------
(* Orders that are overdue when the run starts *)

\* ship_due before day 0, the day of the run
OverdueDates == { Combine(-1, 0), Combine(-6, 0), Combine(-8, 0), Combine(-30, 0) }

InitOverdue ==
    /\ mode = "standard"
    /\ \E c \in Components, q \in Quantities, due \in OverdueDates, cal \in Calendars,
          now \in NowTimes, ex \in ExistingBlockLists :
          /\ mos = << MO("m1", c, q, due, 3) >>
          /\ existing_blocks = ex
          /\ config = Config(now, FALSE, "no_merge")
          /\ work_calendar_gaps = CalendarGaps(cal) /\ work_calendar_days = CalendarDays(cal)
          /\ downtimes = << >>
    /\ IdleRun
    /\ IdleSelector /\ IdleDatabase /\ IdleService

NextOverdue ==
    \/ schedule_begin
    \/ schedule_fail
    \/ schedule_commit
    \/ schedule_finish

SpecOverdue == InitOverdue /\ [][NextOverdue]_vars

\* a machine of the order's mold is free of blocks and downtimes and a work
\* interval has, from the start of the run on, the time that the order takes
EnoughFreeWorkTime(mo) ==
    /\ existing_blocks = << >> /\ downtimes = << >>
    /\ \E k \in 1..Len(get_available_machines(mo.component_code)) :
       \E mold_info \in { get_mold_info(mo.component_code,
                                        get_available_machines(mo.component_code)[k]) } :
          /\ mold_info # NoneValue
          /\ \E i \in 1..Len(work_calendar_gaps) :
                work_calendar_gaps[i].gap_end
                   - Max(work_calendar_gaps[i].gap_start, config.now_datetime)
                   >= calculate_total_time(mo, mold_info)[2]

\* C29: an order whose due date is before the earliest start, however far in
\* the past, with a compatible machine that has enough free work time after the
\* start of the run, gets a candidate with lateness > 0 that is feasible, and
\* is scheduled, not put in failed_mos.
C29_OverdueOrderIsScheduled ==
    ( /\ pc = "done" /\ mode = "standard" /\ Len(mos) = 1
      /\ mos[1].ship_due < config.now_datetime
      /\ EnoughFreeWorkTime(mos[1]) )
    => /\ mos[1].id \in SeqToSet(result.scheduled_mos)
       /\ mos[1].id \notin SeqToSet(result.failed_mos)
       /\ \E k \in 1..Len(generate_candidates_for_mo(mos[1], << >>)) :
             /\ generate_candidates_for_mo(mos[1], << >>)[k].lateness > 0
             /\ generate_candidates_for_mo(mos[1], << >>)[k].feasible

-----------------------------------------------------------------------------
(* Mold manufacturing orders of several components in a run *)

\* the components that a mold manufacturing order aggregates
ComponentsOfMoldMO(mold_mo_id) ==
    { db_mold_details[k].component_code :
         k \in { j \in 1..Len(db_mold_details) : db_mold_details[j].mold_mo_id = mold_mo_id } }

\* C30: a mold manufacturing order of two or more components of one mold, each
\* with a valid MoldCalculation row on machine M, has M among its compatible
\* machines and gets candidates on M; it is not put in failed_mos only because
\* it aggregates several components.
C30_AggregatedMoldMOHasItsMachine ==
    \A i \in 1..Len(mos) :
       ( /\ mode = "standard" /\ pc \in { "done", "saved" }
         /\ Cardinality(ComponentsOfMoldMO(mos[i].id)) >= 2 )
       => \A m \in 1..Len(machines) :
             (\A c \in ComponentsOfMoldMO(mos[i].id) :
                 get_mold_info(c, machines[m].machine_id) # NoneValue)
             => /\ machines[m].machine_id
                      \in SeqToSet(get_available_machines(mos[i].component_code))
                /\ _generate_candidates_for_machine(mos[i], machines[m].machine_id, << >>,
                                                    config.now_datetime) # << >>
                /\ mos[i].id \notin SeqToSet(result.failed_mos)

-----------------------------------------------------------------------------
(* The end of a run of work on the calendar *)

\* the time of [from, to] that lies inside work intervals of the calendar
RECURSIVE WorkTimeBetween(_, _, _)
WorkTimeBetween(from, to, gaps) ==
    IF gaps = << >> THEN 0
    ELSE Max(0, Min(to, gaps[1].gap_end) - Max(from, gaps[1].gap_start))
         + WorkTimeBetween(from, to, Tail(gaps))

\* the instants at which work is asked to start: inside work intervals, at
\* their bounds, and outside them (early morning, night, holiday)
EndTimeStarts ==
    { Combine(d, h) + Minutes(m) : d \in 0..2, h \in { 0, 8, 12, 17, 19 }, m \in { 0, 31 } }

\* the end that calculate_end_time gives is the earliest instant with total
\* seconds of work time since start
EarliestEndOfWork(start, end, total) ==
    /\ end > start
    /\ WorkTimeBetween(start, end, work_calendar_gaps) = total
    /\ WorkTimeBetween(start, end - 1, work_calendar_gaps) < total

\* C31: when the 30 days after start hold enough work time, calculate_end_time
\* returns the earliest end with total_hours of work-interval time inside
\* [start, end]; a start outside every interval is advanced to the next
\* interval and time outside work intervals counts for nothing.
C31_EndTimeIsEarliestWithTotalWorkTime ==
    \A i \in 1..Len(mos), m \in 1..Len(machines), start \in EndTimeStarts :
        LET mold_info == get_mold_info(mos[i].component_code, machines[m].machine_id)
        IN (/\ mode = "standard"
            /\ mold_info # NoneValue
            /\ WorkTimeBetween(start, start + Days(end_time_search_days), work_calendar_gaps)
                  >= calculate_total_time(mos[i], mold_info)[2])
           => EarliestEndOfWork(start, calculate_end_time(start, mos[i], mold_info),
                                calculate_total_time(mos[i], mold_info)[2])

\* an order whose work, asked to start in the night after day 0 under the
\* calendar with a holiday on day 1, ends on day 2, and the engine has run
C31_Witness ==
    /\ mode = "standard" /\ pc = "done"
    /\ work_calendar_gaps = CalendarGaps(<< 8, 0, 16 >>)
    /\ \E i \in 1..Len(mos), m \in 1..Len(machines) :
          LET mold_info == get_mold_info(mos[i].component_code, machines[m].machine_id)
          IN /\ mold_info # NoneValue
             /\ calculate_end_time(Combine(0, 19), mos[i], mold_info)
                   = Combine(2, 8) + calculate_total_time(mos[i], mold_info)[2]

-----------------------------------------------------------------------------
(* Work that the calendar cannot hold *)

\* orders that take up to more than one work interval, more than the whole calendar
LongQuantities == { 8, 12, 30 }
LateDueDates == { Combine(2, 16), Combine(3, 0) }

InitHorizon ==
    /\ mode = "standard"
    /\ \E c \in { "1A", "1B" }, q \in LongQuantities, due \in LateDueDates, cal \in Calendars,
          now \in NowTimes, ex \in ExistingBlockLists :
          /\ mos = << MO("m1", c, q, due, 3) >>
          /\ existing_blocks = ex
          /\ config = Config(now, FALSE, "no_merge")
          /\ work_calendar_gaps = CalendarGaps(cal) /\ work_calendar_days = CalendarDays(cal)
          /\ downtimes = << >>
    /\ IdleRun
    /\ IdleSelector /\ IdleDatabase /\ IdleService

NextHorizon ==
    \/ schedule_begin
    \/ schedule_fail
    \/ schedule_commit
    \/ schedule_finish

SpecHorizon == InitHorizon /\ [][NextHorizon]_vars

\* calculate_end_time leaves its loop with work remaining: the work intervals
\* of the 30 days after start_time hold less than total seconds
HorizonExhausted(start_time, total) ==
    WorkTimeBetween(start_time, start_time + Days(end_time_search_days), work_calendar_gaps)
        < total

\* C32: a candidate whose end time is the provisional current + remaining of
\* an exhausted 30-day horizon is infeasible: it is never marked feasible and
\* never committed as a block.
C32_ExhaustedHorizonCandidateIsInfeasible ==
    /\ (mode = "standard" /\ pc = "loop" /\ idx <= Len(sorted_mos))
       => LET candidates == generate_candidates_for_mo(sorted_mos[idx], current_blocks)
          IN \A k \in 1..Len(candidates) :
                HorizonExhausted(candidates[k].start_time, candidates[k].total)
                => ~candidates[k].feasible
    /\ mode = "standard"
       => \A k \in 1..Len(independent_blocks), i \in 1..Len(mos) :
             independent_blocks[k].mo_ids = << mos[i].id >>
             => ~HorizonExhausted(
                    independent_blocks[k].start_time,
                    calculate_total_time(mos[i],
                        get_mold_info(mos[i].component_code,
                                      independent_blocks[k].machine_id))[2])

-----------------------------------------------------------------------------
(* The forming time of a mold manufacturing order in a run *)

\* no MoldCalculation scaling applies to the order on the machine: the row of
\* (component_code, machine_id) is missing or has no needed_quantity
NoScalingRow(component_code, machine_id) ==
    LET mold_calc == First(SelectSeq(mold_calculations, LAMBDA r:
                        r.component_code = component_code /\ r.machine_id = machine_id))
    IN IF mold_calc = NoneValue THEN TRUE ELSE mold_calc.needed_quantity = 0

\* C33: for a mold manufacturing order of total quantity Q on a mold with
\* cavity_count c and average molding time t, when no MoldCalculation scaling
\* row applies, the forming time used for scheduling is ceil(Q / c) * t
\* (seconds; / 3600 in hours).
C33_FormingTimeIsShotsTimesMoldingTime ==
    \A i \in 1..Len(mos), n \in 1..Len(db_mold_mos), m \in 1..Len(machines) :
        LET mold_info == get_mold_info(mos[i].component_code, machines[m].machine_id)
        IN (/\ mode = "standard"
            /\ db_mold_mos[n].id = mos[i].id
            /\ mold_info # NoneValue
            /\ NoScalingRow(mos[i].component_code, machines[m].machine_id))
           => calculate_forming_time(mos[i], mold_info)
                 = Ceil(db_mold_mos[n].total_quantity, mold_info.cavity_count)
                      * mold_info.avg_molding_time

-----------------------------------------------------------------------------
(* The gaps of a machine *)

\* every downtime slot of the machine that the table holds
DowntimeSlotsOfMachine(machine_id) ==
    MapSeq(SelectSeq(downtimes, LAMBDA dt: dt.machine_id = machine_id),
           LAMBDA dt: << DowntimeInstant(dt.date, IntHour(dt.start_hour)),
                         DowntimeInstant(dt.date, IntHour(dt.end_hour)) >>)

\* gap is free time of its machine inside [from, to]
FreeTime(gap, from, to, blocks) ==
    /\ from <= gap.start_time /\ gap.start_time < gap.end_time /\ gap.end_time <= to
    /\ \A k \in 1..Len(blocks) :
          blocks[k].machine_id = gap.machine_id
          => ~check_time_overlap(gap.start_time, gap.end_time,
                                 blocks[k].start_time, blocks[k].end_time)
    /\ \A k \in 1..Len(DowntimeSlotsOfMachine(gap.machine_id)) :
          ~check_time_overlap(gap.start_time, gap.end_time,
                              DowntimeSlotsOfMachine(gap.machine_id)[k][1],
                              DowntimeSlotsOfMachine(gap.machine_id)[k][2])

\* the gaps that the candidate generator asks for, for the order in turn on machine m
GapsForOrderInTurn(m) ==
    Eval(get_mold_info(sorted_mos[idx].component_code, machines[m].machine_id),
         LAMBDA mold_info:
            IF mold_info = NoneValue THEN << >>
            ELSE calculate_machine_gaps(machines[m].machine_id, config.now_datetime,
                                        sorted_mos[idx].ship_due + Days(gap_horizon_days),
                                        current_blocks,
                                        calculate_total_time(sorted_mos[idx], mold_info)[2]))

\* C34: every TimeGap returned by calculate_machine_gaps(machine, from, to,
\* committed, min_hours) is free time: from <= start < end <= to, and it
\* overlaps no committed block and no downtime slot of the machine.
C34_GapsAreFreeTime ==
    (mode = "standard" /\ pc = "loop" /\ idx <= Len(sorted_mos))
    => \A m \in 1..Len(machines) :
          \A k \in 1..Len(GapsForOrderInTurn(m)) :
             FreeTime(GapsForOrderInTurn(m)[k], config.now_datetime,
                      sorted_mos[idx].ship_due + Days(gap_horizon_days), current_blocks)

-----------------------------------------------------------------------------
(* The outcome of a run of the engine, in either mode *)

InitEngine == Init \/ InitFill

NextEngine ==
    \/ schedule_begin
    \/ schedule_skip_merged
    \/ schedule_fail
    \/ schedule_commit
    \/ schedule_finish
    \/ fill_begin
    \/ fill_fail
    \/ fill_commit
    \/ fill_error
    \/ fill_finish

SpecEngine == InitEngine /\ [][NextEngine]_vars

\* schedule() or schedule_fill_all_machines() has returned after its for-loop
\* ran to the end (the except clause of fill mode leaves the loop early)
ReturnedWithoutException ==
    /\ mode \in { "standard", "fill" }
    /\ pc = "done" /\ idx > Len(sorted_mos)

\* how often id occurs in a list of ids
Occurrences(id, ids) == Cardinality({ k \in 1..Len(ids) : ids[k] = id })

\* id is among the mo_ids of a block of the result
InResultBlock(id) ==
    \E k \in 1..Len(result.blocks) : id \in SeqToSet(result.blocks[k].mo_ids)

\* C35: after schedule() or schedule_fill_all_machines() returns without an
\* internal exception, every input order id is exactly once in exactly one of
\* scheduled_mos and failed_mos, and it is in the mo_ids of a result block iff
\* it is in scheduled_mos.
C35_EveryOrderScheduledOrFailedOnce ==
    ReturnedWithoutException
    => \A i \in 1..Len(mos) :
          /\ Occurrences(mos[i].id, result.scheduled_mos)
               + Occurrences(mos[i].id, result.failed_mos) = 1
          /\ InResultBlock(mos[i].id) <=> mos[i].id \in SeqToSet(result.scheduled_mos)

\* a run that has returned with one order scheduled in a block and another failed
C35_Witness ==
    /\ ReturnedWithoutException
    /\ mode = "fill"
    /\ result.scheduled_mos # << >> /\ result.failed_mos # << >>
    /\ result.blocks # << >>

-----------------------------------------------------------------------------
(* The selected candidate against every other one *)

\* C36: the candidate returned by select_best_candidate is never judged worse
\* by the pairwise comparator than another feasible candidate of the list: for
\* every feasible d, compare_to(chosen, d) does not report d as the better one.
C36_ChosenNeverWorseThanAnother ==
    (Selected /\ sel_result # NoneValue)
    => \A i \in 1..Len(FeasibleCandidates) :
          compare_to(sel_result.candidate, FeasibleCandidates[i])[1] <= 0

-----------------------------------------------------------------------------
(* The blocks of a result on the work calendar *)

\* block b lies inside one work interval of the calendar
InsideOneWorkInterval(b) ==
    \E g \in 1..Len(work_calendar_gaps) :
        /\ work_calendar_gaps[g].gap_start <= b.start_time
        /\ b.end_time <= work_calendar_gaps[g].gap_end

\* C37: under a calendar that has work intervals, every block that
\* split_blocks_by_workday puts out for a block committed by the engine lies
\* inside a single work interval, the blocks it emits unchanged included.
C37_OutputBlocksInsideOneWorkInterval ==
    (mode = "standard" /\ pc = "done" /\ work_calendar_gaps # << >>)
    => \A k \in 1..Len(result.blocks) : InsideOneWorkInterval(result.blocks[k])

-----------------------------------------------------------------------------
(* The persisted blocks of a machine after drag-and-drop updates *)

\* C38: after any sequence of scheduling runs and update_schedules requests,
\* no two persisted daily blocks on the same machine overlap in time.
C38_NoPersistedMachineOverlap ==
    mode = "drag"
    => \A i, j \in 1..Len(db_daily_blocks) :
          (i < j /\ db_daily_blocks[i].machine_id = db_daily_blocks[j].machine_id)
          => ~check_time_overlap(db_daily_blocks[i].start_time, db_daily_blocks[i].end_time,
                                 db_daily_blocks[j].start_time, db_daily_blocks[j].end_time)

-----------------------------------------------------------------------------
(* A history of scheduling runs with different requests *)

\* the order numbers of the requests of a history: all orders, or one of the two
HistoryOrderNumbers == { << >>, << "N1" >>, << "N2" >> }

\* the next request arrives after a run has ended
run_scheduling_request ==
    /\ mode = "standard" /\ request # NoneValue
    /\ pc \in { "saved", "failed" }
    /\ \E order_ids \in HistoryOrderNumbers, reschedule_all \in BOOLEAN :
          request' = SchedulingRequest(order_ids, FALSE, reschedule_all, request.now)
    /\ pc' = "request"
    /\ first_layout' = NoneValue
    /\ UNCHANGED << inputs, selector_vars, database_vars, response, sorted_mos, idx,
                    current_blocks, merged_blocks, independent_blocks, merged_mo_ids,
                    block_counter, result >>

\* two orders, of product 0P and of 0P or 0Q, a first request for all orders or for N1
InitRuns ==
    /\ InitRun
    /\ Len(db_orders) = 2
    /\ db_orders[2].product_code \in { "0P", "0Q" }
    /\ db_orders[1].quantity = 3
    /\ work_calendar_gaps = CalendarGaps(<< 16, 16, 16 >>)
    /\ request.order_ids \in { << >>, << "N1" >> }
    /\ ~request.merge_enabled /\ request.now = Combine(0, 8)

NextRuns ==
    \/ run_scheduling_request
    \/ run_scheduling_begin
    \/ schedule_begin
    \/ schedule_fail
    \/ schedule_commit
    \/ schedule_finish
    \/ run_scheduling_save

SpecRuns == InitRuns /\ [][NextRuns]_vars

\* the mold manufacturing order belongs only to orders outside the request
OnlyOutsideOrders(mold_mo_id) ==
    /\ \E k \in 1..Len(db_mold_details) : db_mold_details[k].mold_mo_id = mold_mo_id
    /\ \A k \in 1..Len(db_mold_details) :
          db_mold_details[k].mold_mo_id = mold_mo_id
          => db_mold_details[k].order_number \notin SeqToSet(request.order_ids)

\* the step in which a run saves its result
RunSaves == mode = "standard" /\ pc = "done" /\ pc' = "saved"

C40_AtMostOneMoldMOPerMoldCode ==
    mode = "standard" =>
        \A i \in 1..Len(db_mold_mos) : \A j \in 1..Len(db_mold_mos) :
            db_mold_mos[i].mold_code = db_mold_mos[j].mold_code => i = j

====
